---- MODULE Spec2Model ----
(***************************************************************************)
(* Model of the TEO impact-mapping pipeline:                               *)
(*   FeatureMapper.mapChangesToFeatures  (src/src/mappers/feature-mapper.js)*)
(*   PlaywrightIntegration.selectTests   (src/unnamed/part_005)            *)
(*   TEOEngine.analyze                   (src/src/core/engine.js)          *)
(*   GitDiffAnalyzer.analyzeDiff         (src/unnamed/part_003)            *)
(*                                                                         *)
(* Strings (feature names, paths, patterns) are sequences of one-character *)
(* strings.  Confidences are integers in hundredths (0.8 is 80); strategy  *)
(* weights and static confidences are integers in tenths (0.5 is 5), so a  *)
(* product weight * factor is a confidence in hundredths.                  *)
(***************************************************************************)
EXTENDS Integers, Sequences, FiniteSets, TLC

\* ------------------------------------------------------------------ bounds
\* Largest number of change records handed to mapChangesToFeatures.
MaxChanges == 2

\* Largest whole number configured as max_retries of an AI provider.
MaxRetries == 6

\* ------------------------------------------------------------ generic help
SeqToSet(s) == { s[i] : i \in 1..Len(s) }

NoDup(s) == \A i, j \in 1..Len(s) : i # j => s[i] # s[j]

RECURSIVE Flatten(_)
Flatten(ss) == IF ss = <<>> THEN <<>> ELSE Head(ss) \o Flatten(Tail(ss))

\* [...new Set(list)]: first occurrences, in order.
RECURSIVE UniqueList(_)
UniqueList(s) ==
  IF s = <<>> THEN <<>>
  ELSE LET init == UniqueList(SubSeq(s, 1, Len(s) - 1))
           last == s[Len(s)]
       IN IF last \in SeqToSet(init) THEN init ELSE Append(init, last)

\* { ...a, ...b }: shallow merge of two objects, b wins on a shared key.
Spread(a, b) ==
  [k \in (DOMAIN a) \cup (DOMAIN b) |-> IF k \in DOMAIN b THEN b[k] ELSE a[k]]

EmptyObject == [k \in {} |-> 0]

\* ------------------------------------------------------------- the inputs
\* Feature names.
NameAb == <<"a", "b">>
NameA_b == <<"A", "-", "b">>
NameC == <<"c">>
FeatureNames == {NameAb, NameA_b, NameC}

\* Test files of the repository.
TestAb == <<"t", "/", "a", "b">>
TestC == <<"t", "/", "C">>
TestX == <<"x">>

\* Source files of the diff, in the order of the diff summary.
SourceFiles == << <<"a", ".", "j">>, <<"b", ".", "j">>, <<"d", ".", "j">> >>

\* The i-th change record of the diff (FileChange).
ChangeAt(i) ==
  LET k == ((i - 1) % Len(SourceFiles)) + 1
  IN [filePath |-> SourceFiles[k],
      changeType |-> IF k = 2 THEN "deleted" ELSE "modified",
      functionsChanged |-> <<>>,
      classesChanged |-> IF k = 2 THEN <<>> ELSE << <<"K">> >>]

ChangeList(n) == [i \in 1..n |-> ChangeAt(i)]

\* config.features: the feature registry (FeatureMappingSchema); confidence
\* in tenths, 0 also standing for a missing key; hasMetadata is FALSE when
\* the metadata key is missing.
Registry ==
  (NameAb :> [confidence |-> 10, hasMetadata |-> TRUE, metadata |-> [owner |-> "reg"]]) @@
  (NameA_b :> [confidence |-> 5, hasMetadata |-> FALSE, metadata |-> EmptyObject]) @@
  (NameC :> [confidence |-> 0, hasMetadata |-> TRUE,
             metadata |-> [owner |-> "c", changedSymbols |-> << <<"R">> >>]])

\* MappingStrategy
FOLDER_BASED == "folder_based"
FILE_BASED == "file_based"
ANNOTATION_BASED == "annotation_based"
AST_BASED == "ast_based"
MappingStrategy == {FOLDER_BASED, FILE_BASED, ANNOTATION_BASED, AST_BASED}

\* An entry of the strategies list as FeatureMapper receives it; enabled is
\* the truthiness of the entry's enabled property.
StrategyConfig(t, w, e) == [type |-> t, weight |-> w, enabled |-> e, hasEnabled |-> TRUE]

\* An entry without the enabled key: the property reads as undefined, which
\* is falsy.
OmitsEnabled(t, w) == [type |-> t, weight |-> w, enabled |-> FALSE, hasEnabled |-> FALSE]

\* config.feature_detection.strategies: the configurations the model runs.
ConfigChoices ==
  { <<>>,
    << StrategyConfig(FOLDER_BASED, 10, TRUE), StrategyConfig(AST_BASED, 10, TRUE) >>,
    << StrategyConfig(FILE_BASED, 8, TRUE), StrategyConfig(FOLDER_BASED, 10, TRUE) >>,
    << StrategyConfig(ANNOTATION_BASED, 5, TRUE), StrategyConfig(FILE_BASED, 15, TRUE) >>,
    << StrategyConfig(AST_BASED, 0, TRUE), StrategyConfig(ANNOTATION_BASED, 10, FALSE),
       StrategyConfig(FOLDER_BASED, 5, TRUE) >>,
    << StrategyConfig(FILE_BASED, 10, TRUE), StrategyConfig("custom", 10, TRUE),
       StrategyConfig(FILE_BASED, 5, TRUE) >>,
    << OmitsEnabled(FOLDER_BASED, 10), StrategyConfig(FILE_BASED, 10, TRUE),
       StrategyConfig(AST_BASED, 10, TRUE) >> }

\* a || b for numbers: 0 is falsy.
OrDefault(v, d) == IF v = 0 THEN d ELSE v

\* -------------------------------------------------------- FeatureMapper
\* BaseMappingStrategy constructor: weight = config.weight || 1.0
StrategyWeight(cfg) == OrDefault(cfg.weight, 10)

\* Map.set on the strategies map: a type already present keeps its place.
MapSet(m, t, v) ==
  IF \E i \in 1..Len(m) : m[i].type = t
  THEN [i \in 1..Len(m) |-> IF m[i].type = t THEN v ELSE m[i]]
  ELSE Append(m, v)

\* FeatureMapper.initializeStrategies
RECURSIVE InitializeStrategies(_, _)
InitializeStrategies(cfgs, m) ==
  IF cfgs = <<>> THEN m
  ELSE LET c == Head(cfgs)
       IN IF ~c.enabled THEN InitializeStrategies(Tail(cfgs), m)
          ELSE IF c.type \notin MappingStrategy THEN InitializeStrategies(Tail(cfgs), m)
          ELSE InitializeStrategies(Tail(cfgs),
                 MapSet(m, c.type, [type |-> c.type, weight |-> StrategyWeight(c)]))

\* What a strategy finds for one change record: nothing, or a feature name
\* with the test files its glob expansion returned (relative paths with
\* duplicates removed).
Detection(n, t) == [found |-> TRUE, featureName |-> n, testFiles |-> t]
NoDetection == [found |-> FALSE, featureName |-> <<>>, testFiles |-> <<>>]
Detections ==
  { NoDetection,
    Detection(NameAb, <<TestAb>>),
    Detection(NameAb, <<TestC, TestAb>>),
    Detection(NameC, <<TestC>>),
    Detection(NameC, <<>>),
    Detection(NameA_b, <<TestAb>>) }

\* new ImpactedFeature({...})
NewImpactedFeature(n, c, files, tests, s, md) ==
  [featureName |-> n, confidence |-> c, impactedFiles |-> files,
   testFiles |-> tests, strategyUsed |-> s, metadata |-> md]

\* FolderBasedStrategy.mapChangesToFeatures, one change
FolderBasedResult(strategy, change, det) ==
  IF det.found /\ Len(det.testFiles) > 0
  THEN << NewImpactedFeature(det.featureName, strategy.weight * 8, <<change.filePath>>,
                             det.testFiles, FOLDER_BASED, EmptyObject) >>
  ELSE <<>>

\* FileBasedStrategy.mapChangesToFeatures, one change
FileBasedResult(strategy, change, det) ==
  IF det.found /\ det.featureName \in DOMAIN Registry
  THEN LET mapping == Registry[det.featureName]
       IN << NewImpactedFeature(det.featureName,
                                strategy.weight * OrDefault(mapping.confidence, 10),
                                <<change.filePath>>, det.testFiles, FILE_BASED,
                                IF mapping.hasMetadata THEN mapping.metadata
                                ELSE EmptyObject) >>
  ELSE <<>>

\* AnnotationBasedStrategy.mapChangesToFeatures, one change
AnnotationBasedResult(strategy, change, det) ==
  IF change.changeType = "deleted" THEN <<>>
  ELSE IF det.found
  THEN << NewImpactedFeature(det.featureName, strategy.weight * 9, <<change.filePath>>,
                             det.testFiles, ANNOTATION_BASED, EmptyObject) >>
  ELSE <<>>

\* ASTBasedStrategy.mapChangesToFeatures, one change
ASTBasedResult(strategy, change, det) ==
  LET changedSymbols == change.functionsChanged \o change.classesChanged
  IN IF Len(changedSymbols) > 0 /\ det.found
     THEN << NewImpactedFeature(det.featureName, strategy.weight * 7, <<change.filePath>>,
                                det.testFiles, AST_BASED,
                                [changedSymbols |-> changedSymbols]) >>
     ELSE <<>>

\* strategy.mapChangesToFeatures(diffResult, existingMappings): the results
\* in the order of diffResult.changes; dets[i] is what is found for change i.
StrategyResults(strategy, chs, dets) ==
  Flatten([i \in 1..Len(chs) |->
    CASE strategy.type = FOLDER_BASED -> FolderBasedResult(strategy, chs[i], dets[i])
      [] strategy.type = FILE_BASED -> FileBasedResult(strategy, chs[i], dets[i])
      [] strategy.type = ANNOTATION_BASED -> AnnotationBasedResult(strategy, chs[i], dets[i])
      [] OTHER -> ASTBasedResult(strategy, chs[i], dets[i])])

\* Position of a key in the allFeatures map (0 when absent).
KeyIndex(m, key) ==
  IF \E i \in 1..Len(m) : m[i].featureName = key
  THEN CHOOSE i \in 1..Len(m) : m[i].featureName = key
  ELSE 0

Max(a, b) == IF a >= b THEN a ELSE b

\* Variant: the confidences of merged results are added up.
MergeFeatureSum(m, feature) ==
  LET k == KeyIndex(m, feature.featureName)
  IN IF k > 0
     THEN [m EXCEPT ![k] =
            [@ EXCEPT !.confidence = @ + feature.confidence,
                      !.impactedFiles = UniqueList(@ \o feature.impactedFiles),
                      !.testFiles = UniqueList(@ \o feature.testFiles),
                      !.metadata = Spread(@, feature.metadata)]]
     ELSE Append(m, feature)

\* Variant: the file lists of merged results are concatenated.
MergeFeatureConcat(m, feature) ==
  LET k == KeyIndex(m, feature.featureName)
  IN IF k > 0
     THEN [m EXCEPT ![k] =
            [@ EXCEPT !.confidence = Max(@, feature.confidence),
                      !.impactedFiles = @ \o feature.impactedFiles,
                      !.testFiles = @ \o feature.testFiles,
                      !.metadata = Spread(@, feature.metadata)]]
     ELSE Append(m, feature)

\* Variant: on a shared metadata key the value already merged is kept.
MergeFeatureKeepsFirst(m, feature) ==
  LET k == KeyIndex(m, feature.featureName)
  IN IF k > 0
     THEN [m EXCEPT ![k] =
            [@ EXCEPT !.confidence = Max(@, feature.confidence),
                      !.impactedFiles = UniqueList(@ \o feature.impactedFiles),
                      !.testFiles = UniqueList(@ \o feature.testFiles),
                      !.metadata = Spread(feature.metadata, @)]]
     ELSE Append(m, feature)

\* The body of the merge loop of mapChangesToFeatures for one feature.
MergeFeature(m, feature) ==
  LET k == KeyIndex(m, feature.featureName)
  IN IF k > 0
     THEN [m EXCEPT ![k] =
            [@ EXCEPT !.confidence = Max(@, feature.confidence),
                      !.impactedFiles = UniqueList(@ \o feature.impactedFiles),
                      !.testFiles = UniqueList(@ \o feature.testFiles),
                      !.metadata = Spread(@, feature.metadata)]]
     ELSE Append(m, feature)

\* Variant: the merge writes the keys of feature.metadata into the object
\* existing.metadata refers to, which for a file-based result is the
\* metadata object of the registry.
MergeWritesThrough(reg, m, feature) ==
  LET k == KeyIndex(m, feature.featureName)
  IN IF k > 0 /\ m[k].strategyUsed = FILE_BASED /\ reg[feature.featureName].hasMetadata
     THEN [reg EXCEPT ![feature.featureName].metadata = Spread(@, feature.metadata)]
     ELSE reg

\* The registry after the merge of one feature: the merge branch assigns
\* newly built lists and a newly built object to the fields of existing, so
\* the registry object a file-based result refers to is not written.
RegistryAfterMerge(reg, m, feature) == reg

\* The registry after the merge loop over the results of one strategy.
RECURSIVE RegistryAfterMerges(_, _, _)
RegistryAfterMerges(reg, m, features) ==
  IF features = <<>> THEN reg
  ELSE RegistryAfterMerges(RegistryAfterMerge(reg, m, Head(features)),
                           MergeFeature(m, Head(features)), Tail(features))

\* for (const feature of features) { ... }
RECURSIVE MergeFeatures(_, _)
MergeFeatures(m, features) ==
  IF features = <<>> THEN m
  ELSE MergeFeatures(MergeFeature(m, Head(features)), Tail(features))

\* Variant: insertion before the elements of equal confidence.
RECURSIVE InsertBeforeEqual(_, _)
InsertBeforeEqual(sorted, f) ==
  IF sorted = <<>> THEN <<f>>
  ELSE IF Head(sorted).confidence > f.confidence
       THEN <<Head(sorted)>> \o InsertBeforeEqual(Tail(sorted), f)
       ELSE <<f>> \o sorted

\* Insert into a list sorted by confidence descending, after equal elements.
RECURSIVE InsertByConfidence(_, _)
InsertByConfidence(sorted, f) ==
  IF sorted = <<>> THEN <<f>>
  ELSE IF Head(sorted).confidence >= f.confidence
       THEN <<Head(sorted)>> \o InsertByConfidence(Tail(sorted), f)
       ELSE <<f>> \o sorted

\* Array.prototype.sort((a, b) => b.confidence - a.confidence): stable.
RECURSIVE SortByConfidence(_)
SortByConfidence(s) ==
  IF s = <<>> THEN <<>>
  ELSE InsertByConfidence(SortByConfidence(SubSeq(s, 1, Len(s) - 1)), s[Len(s)])


\* ------------------------------------------------ PlaywrightIntegration
\* String.prototype.toLowerCase, one character.
LowerOf ==
  [A |-> "a", B |-> "b", C |-> "c", D |-> "d", E |-> "e", F |-> "f", G |-> "g",
   H |-> "h", I |-> "i", J |-> "j", K |-> "k", L |-> "l", M |-> "m", N |-> "n",
   O |-> "o", P |-> "p", Q |-> "q", R |-> "r", S |-> "s", T |-> "t", U |-> "u",
   V |-> "v", W |-> "w", X |-> "x", Y |-> "y", Z |-> "z"]

LowerChar(c) == IF c \in DOMAIN LowerOf THEN LowerOf[c] ELSE c

\* String.prototype.toLowerCase
ToLowerCase(s) == [i \in 1..Len(s) |-> LowerChar(s[i])]

\* name.replace(/[_-]/g, '')
StripSeparators(s) == SelectSeq(s, LAMBDA c : c \notin {"_", "-"})

\* String.prototype.includes
Includes(hay, needle) ==
  \E i \in 0..(Len(hay) - Len(needle)) : SubSeq(hay, i + 1, i + Len(needle)) = needle

\* .replace(/\*\*/g, '.*'): pairs of stars, scanned from the left.
RECURSIVE ReplaceStarStar(_)
ReplaceStarStar(s) ==
  IF s = <<>> THEN <<>>
  ELSE IF Len(s) >= 2 /\ s[1] = "*" /\ s[2] = "*"
       THEN <<".", "*">> \o ReplaceStarStar(SubSeq(s, 3, Len(s)))
       ELSE <<s[1]>> \o ReplaceStarStar(Tail(s))

\* .replace(/\*/g, '[^/]*')
RECURSIVE ReplaceStar(_)
ReplaceStar(s) ==
  IF s = <<>> THEN <<>>
  ELSE IF s[1] = "*"
       THEN <<"[", "^", "/", "]", "*">> \o ReplaceStar(Tail(s))
       ELSE <<s[1]>> \o ReplaceStar(Tail(s))

\* .replace(/\?/g, '.')
ReplaceQuestion(s) == [i \in 1..Len(s) |-> IF s[i] = "?" THEN "." ELSE s[i]]

\* The source text of the regular expression built by matchesPattern.
RegexSource(pattern) == ReplaceQuestion(ReplaceStar(ReplaceStarStar(pattern)))

\* new RegExp(source, 'i') for the sources RegexSource produces from patterns
\* of letters, digits, '/', '-', '_', '.', '*' and '?': a list of atoms, each
\* one of any character, a run of non-slash characters, or a literal.
RECURSIVE Compile(_)
Compile(src) ==
  IF src = <<>> THEN <<>>
  ELSE IF Len(src) >= 5 /\ SubSeq(src, 1, 5) = <<"[", "^", "/", "]", "*">>
       THEN <<[kind |-> "notSlashStar", char |-> ""]>> \o Compile(SubSeq(src, 6, Len(src)))
       ELSE IF src[1] = "."
            THEN <<[kind |-> "any", char |-> ""]>> \o Compile(Tail(src))
            ELSE <<[kind |-> "literal", char |-> src[1]]>> \o Compile(Tail(src))

\* The atoms match a prefix of s (flag 'i': letters compare case-blind).
RECURSIVE MatchHere(_, _)
MatchHere(atoms, s) ==
  IF atoms = <<>> THEN TRUE
  ELSE LET a == Head(atoms)
       IN CASE a.kind = "any" ->
                 s # <<>> /\ MatchHere(Tail(atoms), Tail(s))
            [] a.kind = "literal" ->
                 s # <<>> /\ LowerChar(s[1]) = LowerChar(a.char)
                          /\ MatchHere(Tail(atoms), Tail(s))
            [] OTHER ->
                 \E n \in 0..Len(s) :
                   /\ \A i \in 1..n : s[i] # "/"
                   /\ MatchHere(Tail(atoms), SubSeq(s, n + 1, Len(s)))

\* regex.test(filePath): a match may start anywhere.
RegexTest(atoms, s) ==
  \E i \in 0..Len(s) : MatchHere(atoms, SubSeq(s, i + 1, Len(s)))

\* PlaywrightIntegration.matchesPattern
MatchesPattern(filePath, pattern) == RegexTest(Compile(RegexSource(pattern)), filePath)

\* testFiles.filter(file => matchesPattern(file, testPattern)) for each pattern
PatternMatches(testFiles, patterns) ==
  Flatten([k \in 1..Len(patterns) |->
             SelectSeq(testFiles, LAMBDA file : MatchesPattern(file, patterns[k]))])

\* The fallback of matchTestsToFeature: matching on the feature name.
NameMatches(testFiles, name) ==
  LET featureName == ToLowerCase(name)
  IN SelectSeq(testFiles, LAMBDA file :
       \/ Includes(ToLowerCase(file), featureName)
       \/ Includes(ToLowerCase(file), StripSeparators(featureName)))

\* Variant: the fallback is taken only by a feature without test files.
MatchTestsToFeatureElse(testFiles, feature) ==
  UniqueList(IF Len(feature.testFiles) > 0
             THEN PatternMatches(testFiles, feature.testFiles)
             ELSE NameMatches(testFiles, feature.featureName))

\* Variant: the test files of the feature are taken as they are.
MatchTestsToFeatureAsIs(testFiles, feature) ==
  UniqueList(IF Len(feature.testFiles) > 0
             THEN feature.testFiles
             ELSE NameMatches(testFiles, feature.featureName))

\* PlaywrightIntegration.matchTestsToFeature
MatchTestsToFeature(testFiles, feature) ==
  LET matchingTests == IF Len(feature.testFiles) > 0
                       THEN PatternMatches(testFiles, feature.testFiles)
                       ELSE <<>>
  IN UniqueList(IF Len(matchingTests) = 0
                THEN NameMatches(testFiles, feature.featureName)
                ELSE matchingTests)

\* One entry of selectedTests.
SelectedTest(testFile, feature) ==
  [path |-> testFile, feature |-> feature.featureName, confidence |-> feature.confidence,
   strategy |-> feature.strategyUsed,
   reason |-> [feature |-> feature.featureName, percent |-> feature.confidence]]

\* Variant: every matched test is pushed.
RECURSIVE PushTestsAll(_, _, _)
PushTestsAll(selectedTests, featureTests, feature) ==
  IF featureTests = <<>> THEN selectedTests
  ELSE PushTestsAll(Append(selectedTests, SelectedTest(Head(featureTests), feature)),
                    Tail(featureTests), feature)

\* for (const testFile of featureTests) { if (!selectedTests.some(...)) push }
RECURSIVE PushTests(_, _, _)
PushTests(selectedTests, featureTests, feature) ==
  IF featureTests = <<>> THEN selectedTests
  ELSE LET testFile == Head(featureTests)
       IN PushTests(IF \E i \in 1..Len(selectedTests) : selectedTests[i].path = testFile
                    THEN selectedTests
                    ELSE Append(selectedTests, SelectedTest(testFile, feature)),
                    Tail(featureTests), feature)

\* The body of the feature loop of selectTests.
SelectForFeature(acc, allTestFiles, feature) ==
  LET featureTests == MatchTestsToFeature(allTestFiles, feature)
  IN [selectedTests |-> PushTests(acc.selectedTests, featureTests, feature),
      selectionReasons |->
        IF Len(featureTests) > 0
        THEN Append(acc.selectionReasons,
                    [feature |-> feature.featureName, confidence |-> feature.confidence,
                     testsSelected |-> Len(featureTests), strategy |-> feature.strategyUsed])
        ELSE acc.selectionReasons,
      featureTests |-> Append(acc.featureTests, featureTests)]

\* for (const feature of impactedFeatures) { ... }
RECURSIVE SelectLoop(_, _, _)
SelectLoop(acc, allTestFiles, features) ==
  IF features = <<>> THEN acc
  ELSE SelectLoop(SelectForFeature(acc, allTestFiles, Head(features)),
                  allTestFiles, Tail(features))

\* Variant: the percentage is cut off instead of rounded.
ReductionPercentageFloor(selected, available) ==
  IF available = 0 THEN [nan |-> TRUE, value |-> 0]
  ELSE [nan |-> FALSE, value |-> (100 * (available - selected)) \div available]

\* Math.round((1 - selected / available) * 100); 0 / 0 is NaN and so is its
\* rounding.  selected <= available, so the rounded number is not negative and
\* Math.round is floor(x + 1/2).
ReductionPercentage(selected, available) ==
  IF available = 0 THEN [nan |-> TRUE, value |-> 0]
  ELSE [nan |-> FALSE,
        value |-> (200 * (available - selected) + available) \div (2 * available)]

\* PlaywrightIntegration.selectTests
SelectTests(allTestFiles, impactedFeatures) ==
  LET acc == SelectLoop([selectedTests |-> <<>>, selectionReasons |-> <<>>,
                         featureTests |-> <<>>], allTestFiles, impactedFeatures)
  IN [selectedTests |-> acc.selectedTests,
      selectionReasons |-> acc.selectionReasons,
      featureTests |-> acc.featureTests,
      summary |-> [totalAvailable |-> Len(allTestFiles),
                   totalSelected |-> Len(acc.selectedTests),
                   reductionPercentage |->
                     ReductionPercentage(Len(acc.selectedTests), Len(allTestFiles))]]

\* ------------------------------------------------------------------ state
VARIABLES
  strategyConfigs,  \* config.feature_detection.strategies
  strategies,       \* FeatureMapper.strategies, in Map order
  registry,         \* config.features, the objects the strategies read
  mapPc,            \* position in mapChangesToFeatures
  diffResult,       \* its argument
  idx,              \* index of the strategy the loop is at
  allFeatures,      \* the allFeatures map, in insertion order
  mapResult,        \* the returned list
  outcomes,         \* per strategy run: what it returned, or that it threw
  warnings,         \* logger.warn('Strategy failed', ...) records
  selPc,            \* position in selectTests
  allTestFiles,     \* its first argument
  impactedFeatures, \* its second argument
  featureTests,     \* per feature: what matchTestsToFeature returned
  selection,        \* the returned object
  enginePc,         \* position in TEOEngine.analyze
  options,          \* its options argument
  diffAnalysis,     \* what analyzeDiff returned
  featureMapping,   \* what mapChangesToFeatures returned
  aiAnalysis,       \* what the AI step left
  aiCalls,          \* invocations of enhanceWithAI
  discoverCalls,    \* invocations of discoverTests
  testSelection,    \* the test selection of the result
  engineResult,     \* the summary of the returned result
  engineError,      \* the error analyze rejects with ("" when none)
  diffOutcome,      \* what the analyzeDiff call of analyze did
  secondResult,     \* the list of a second merge-and-sort over the same results
  diffPc,           \* position in GitDiffAnalyzer.analyzeDiff
  repoCheck,        \* what git.checkIsRepo() did
  refs,             \* what git.revparse did for baseRef and headRef
  summaryCalls,     \* invocations of git.diffSummary
  diffSummary,      \* diffSummary.files
  fileIdx,          \* index of the file the loop of analyzeDiff is at
  changes,          \* the changes list of analyzeDiff
  faults,           \* per analysed file: the read and parse failures it met
  createPc,         \* position in TEOEngine.create
  gitConfig,        \* config.get('git', {})
  repoPath,         \* gitAnalyzer.repoPath (<<>> before the constructor)
  initCalls,        \* invocations of initRemoteRepo
  createError,      \* the error create rejects with
  components,       \* the components _initialize constructed, with their repoPath
  remotePc,         \* position in GitDiffAnalyzer.initRemoteRepo
  localRepo,        \* what the local path holds
  localAtCall,      \* what it held when initRemoteRepo was called
  isRepo,           \* the local isRepo of initRemoteRepo
  remoteUrlCorrect, \* the local remoteUrlCorrect of initRemoteRepo
  gitLog,           \* the git and fs operations initRemoteRepo completed
  thrown,           \* the operation whose error initRemoteRepo caught
  remoteError,      \* the error initRemoteRepo threw ("" when none)
  retryPc,          \* position in BaseAIProvider.withRetry
  configMaxRetries, \* config.max_retries
  maxRetries,       \* this.maxRetries
  attempt,          \* the loop variable of withRetry
  attemptLog,       \* per invocation of the operation: how it ended
  sleeps,           \* the delays slept, with the attempt they followed
  lastError,        \* the local lastError of withRetry
  retryOutcome,     \* what withRetry returned or threw
  provPc,           \* position in AIProviderManager.analyzeImpact
  aiConfig,         \* the configuration of the AIProviderManager
  primaryProvider,  \* this.primaryProvider
  fallbackProviders,\* this.fallbackProviders
  provIdx,          \* index of the fallback provider the loop is at
  featureArg,       \* the featureMapping argument of analyzeImpact
  tried,            \* the providers tried, with how each ended
  analysis          \* what analyzeImpact resolved to

mapVars == <<mapPc, diffResult, idx, allFeatures, mapResult, outcomes, warnings,
             secondResult>>
cfgVars == <<strategyConfigs, strategies, registry>>
selVars == <<selPc, allTestFiles, impactedFeatures, featureTests, selection>>
engVars == <<enginePc, options, diffAnalysis, featureMapping, aiAnalysis, aiCalls,
             discoverCalls, testSelection, engineResult, engineError, diffOutcome>>
gitVars == <<diffPc, repoCheck, refs, summaryCalls, diffSummary, fileIdx, changes, faults>>
coreVars == <<cfgVars, mapVars, selVars, engVars, gitVars>>
createVars == <<createPc, gitConfig, repoPath, initCalls, createError, components>>
remoteVars == <<remotePc, localRepo, localAtCall, isRepo, remoteUrlCorrect, gitLog, thrown,
                remoteError>>
retryVars == <<retryPc, configMaxRetries, maxRetries, attempt, attemptLog, sleeps,
               lastError, retryOutcome>>
provVars == <<provPc, aiConfig, primaryProvider, fallbackProviders, provIdx, featureArg,
              tried, analysis>>
svcVars == <<createVars, remoteVars, retryVars, provVars>>
vars == <<coreVars, svcVars>>

\* The results returned by the strategies that did not throw, in the order
\* they were returned.
Returned == Flatten([i \in 1..Len(outcomes) |-> outcomes[i].features])

\* The results of Returned carrying a feature name.
Contributing(n) == { i \in 1..Len(Returned) : Returned[i].featureName = n }

\* Index of the first returned result with a feature name.
FirstSeen(n) == CHOOSE i \in Contributing(n) : \A j \in Contributing(n) : i <= j

\* The result objects of the strategies as a finished run leaves them: the
\* allFeatures map holds the first result object of each name and the merge
\* loop assigns to that object, so it carries the merged values.
ResultObjects ==
  [i \in 1..Len(Returned) |->
     IF i = FirstSeen(Returned[i].featureName)
     THEN allFeatures[KeyIndex(allFeatures, Returned[i].featureName)]
     ELSE Returned[i]]

NoDiff == [hasChanges |-> FALSE, changes |-> <<>>]
Diff(n) == [hasChanges |-> TRUE, changes |-> ChangeList(n)]

MapIdle ==
  /\ mapPc = "idle"
  /\ diffResult = NoDiff
  /\ idx = 0
  /\ allFeatures = <<>>
  /\ mapResult = <<>>
  /\ outcomes = <<>>
  /\ warnings = <<>>
  /\ secondResult = <<>>

\* new FeatureMapper(repoPath, config)
FeatureMapperInit ==
  /\ strategyConfigs \in ConfigChoices
  /\ strategies = InitializeStrategies(strategyConfigs, <<>>)
  /\ registry = Registry

\* mapChangesToFeatures(diffResult) up to the strategy loop
EnterMap(d) ==
  /\ diffResult' = d
  /\ allFeatures' = <<>>
  /\ outcomes' = <<>>
  /\ warnings' = <<>>
  /\ secondResult' = <<>>
  /\ IF ~d.hasChanges
     THEN /\ mapPc' = "done"
          /\ mapResult' = <<>>
          /\ idx' = 0
     ELSE /\ mapPc' = "loop"
          /\ mapResult' = <<>>
          /\ idx' = 1

\* A caller invokes mapChangesToFeatures directly.
MapCall ==
  /\ mapPc = "idle"
  /\ \E d \in {NoDiff} \cup { Diff(n) : n \in 0..MaxChanges } : EnterMap(d)
  /\ UNCHANGED <<cfgVars, selVars, engVars,
                 gitVars, svcVars>>

\* Variant: the results of a strategy are kept aside when it returns.
StrategyReturnsDefers ==
  /\ mapPc = "loop"
  /\ idx <= Len(strategies)
  /\ \E dets \in [1..Len(diffResult.changes) -> Detections] :
       LET features == StrategyResults(strategies[idx], diffResult.changes, dets)
       IN outcomes' = Append(outcomes, [type |-> strategies[idx].type, threw |-> FALSE,
                                        features |-> features])
  /\ idx' = idx + 1
  /\ UNCHANGED <<mapPc, diffResult, allFeatures, mapResult, warnings, cfgVars, selVars,
                 engVars, secondResult, gitVars, svcVars>>

\* One iteration of the strategy loop in which the strategy returns.
StrategyReturns ==
  /\ mapPc = "loop"
  /\ idx <= Len(strategies)
  /\ \E dets \in [1..Len(diffResult.changes) -> Detections] :
       LET features == StrategyResults(strategies[idx], diffResult.changes, dets)
       IN /\ allFeatures' = MergeFeatures(allFeatures, features)
          /\ registry' = RegistryAfterMerges(registry, allFeatures, features)
          /\ outcomes' = Append(outcomes, [type |-> strategies[idx].type, threw |-> FALSE,
                                           features |-> features])
  /\ idx' = idx + 1
  /\ UNCHANGED <<mapPc, diffResult, mapResult, warnings, strategyConfigs, strategies,
                 selVars, engVars, secondResult, gitVars, svcVars>>

\* Variant: the exception of a strategy leaves the loop.
StrategyThrowsAborts ==
  /\ mapPc = "loop"
  /\ idx <= Len(strategies)
  /\ warnings' = Append(warnings, strategies[idx].type)
  /\ outcomes' = Append(outcomes, [type |-> strategies[idx].type, threw |-> TRUE,
                                   features |-> <<>>])
  /\ idx' = Len(strategies) + 1
  /\ UNCHANGED <<mapPc, diffResult, allFeatures, mapResult, cfgVars, selVars, engVars,
                 secondResult, gitVars, svcVars>>

\* One iteration of the strategy loop in which the strategy throws.
StrategyThrows ==
  /\ mapPc = "loop"
  /\ idx <= Len(strategies)
  /\ warnings' = Append(warnings, strategies[idx].type)
  /\ outcomes' = Append(outcomes, [type |-> strategies[idx].type, threw |-> TRUE,
                                   features |-> <<>>])
  /\ idx' = idx + 1
  /\ UNCHANGED <<mapPc, diffResult, allFeatures, mapResult, cfgVars, selVars, engVars,
                 secondResult, gitVars, svcVars>>

\* After the loop: sort and return.
MapFinish ==
  /\ mapPc = "loop"
  /\ idx > Len(strategies)
  /\ mapResult' = SortByConfidence(allFeatures)
  /\ mapPc' = "done"
  /\ UNCHANGED <<diffResult, idx, allFeatures, outcomes, warnings, cfgVars, selVars, engVars,
                 secondResult, gitVars, svcVars>>

\* The merge loop and the sort run a second time over the result objects
\* of the finished run.
AggregateAgain ==
  /\ mapPc = "done"
  /\ diffResult.hasChanges
  /\ secondResult' = SortByConfidence(MergeFeatures(<<>>, ResultObjects))
  /\ mapPc' = "again"
  /\ UNCHANGED <<diffResult, idx, allFeatures, mapResult, outcomes, warnings,
                 cfgVars, selVars, engVars, gitVars, svcVars>>

\* One iteration of the strategy loop in which the promise of the strategy
\* never settles: the await of the loop does not resume.
StrategyStalls ==
  /\ mapPc = "loop"
  /\ idx <= Len(strategies)
  /\ mapPc' = "awaiting"
  /\ UNCHANGED <<diffResult, idx, allFeatures, mapResult, outcomes, warnings,
                 secondResult, cfgVars, selVars, engVars, gitVars, svcVars>>

MapNext == MapCall \/ StrategyReturns \/ StrategyThrows \/ MapFinish \/ AggregateAgain

\* ------------------------------------------------------- selectTests runs
\* discoverTests returns relative paths, duplicates removed and sorted.
TestLists == { <<>>, <<TestAb>>, <<TestC, TestAb>>, <<TestC, TestAb, TestX>> }

\* Patterns that are not paths of the repository.
PatternZ == <<"z">>
PatternTStar == <<"t", "/", "*">>
PatternStarStarB == <<"*", "*", "?", "b">>

\* The test files an impacted feature may carry.
HintLists == { <<>>, <<PatternZ>>, <<TestX, PatternTStar>>, <<PatternStarStarB>> }

\* The impacted features handed to selectTests.
SelectableFeatures ==
  { NewImpactedFeature(n, c, <<SourceFiles[1]>>, h, FILE_BASED, EmptyObject) :
      n \in FeatureNames, c \in {50, 80}, h \in HintLists }

\* Largest number of impacted features handed to selectTests directly.
MaxFeatures == 2

FeatureLists == UNION { [1..n -> SelectableFeatures] : n \in 0..MaxFeatures }

SelectIdle ==
  /\ selPc = "idle"
  /\ featureTests = <<>>
  /\ selection = [selectedTests |-> <<>>, selectionReasons |-> <<>>,
                  summary |-> [totalAvailable |-> 0, totalSelected |-> 0,
                               reductionPercentage |-> [nan |-> FALSE, value |-> 0]]]

\* selectTests(tests, features), from call to return
RunSelectTests(tests, features) ==
  LET r == SelectTests(tests, features)
  IN /\ allTestFiles' = tests
     /\ impactedFeatures' = features
     /\ featureTests' = r.featureTests
     /\ selection' = [selectedTests |-> r.selectedTests,
                      selectionReasons |-> r.selectionReasons,
                      summary |-> r.summary]
     /\ selPc' = "done"

\* A caller invokes selectTests with the arguments prepared for it.
SelectTestsCall ==
  /\ selPc = "idle"
  /\ RunSelectTests(allTestFiles, impactedFeatures)
  /\ UNCHANGED <<cfgVars, mapVars, engVars,
                 gitVars, svcVars>>

\* ------------------------------------------------------------- TEOEngine
\* Largest number of files in the diff summary of an engine run.
MaxDiffFiles == 1

\* The options of analyze that the model runs; refs tells whether both
\* references are given.
Options(r, l, a, f) == [refs |-> r, last24h |-> l, useAI |-> a, framework |-> f]
OptionChoices ==
  { Options(TRUE, FALSE, TRUE, "playwright"),
    Options(TRUE, FALSE, FALSE, "playwright"),
    Options(FALSE, FALSE, TRUE, "playwright"),
    Options(FALSE, TRUE, TRUE, "playwright"),
    Options(TRUE, FALSE, TRUE, "jest") }

\* TestOrchestrator.integrations
Integrations == {"playwright"}

NoSelection ==
  [framework |-> "", selectedTests |-> <<>>, selectionReasons |-> <<>>,
   summary |-> [totalAvailable |-> 0, totalSelected |-> 0,
                reductionPercentage |-> [nan |-> FALSE, value |-> 0]]]

NoAnalysis == [present |-> FALSE, confidence |-> 0, enhancedFeatures |-> <<>>]

NoResult == [filesChanged |-> 0, featuresDetected |-> 0, testsSelected |-> 0,
             reductionPercentage |-> [nan |-> FALSE, value |-> 0],
             estimatedTimeSaved |-> 0]

EngineIdle ==
  /\ enginePc = "idle"
  /\ options = Options(FALSE, FALSE, FALSE, "")
  /\ diffAnalysis = NoDiff
  /\ featureMapping = <<>>
  /\ aiAnalysis = NoAnalysis
  /\ aiCalls = 0
  /\ discoverCalls = 0
  /\ testSelection = NoSelection
  /\ engineResult = NoResult
  /\ engineError = ""
  /\ diffOutcome = "none"

\* analyze(baseRef, headRef, options) up to the choice of the references
AnalyzeCall ==
  /\ enginePc = "idle"
  /\ \E o \in OptionChoices :
       /\ options' = o
       /\ enginePc' = IF ~o.last24h /\ ~o.refs THEN "failed"
                      ELSE IF o.last24h THEN "last24h" ELSE "diff"
       /\ engineError' = IF ~o.last24h /\ ~o.refs THEN "refs" ELSE ""
  /\ UNCHANGED <<diffAnalysis, featureMapping, aiAnalysis, aiCalls, discoverCalls,
                 testSelection, engineResult, cfgVars, mapVars, selVars,
                 diffOutcome, gitVars, svcVars>>

\* getLastCommitWithin24Hours: a commit, or none (analyze throws)
LastCommit ==
  /\ enginePc = "last24h"
  /\ \E found \in BOOLEAN :
       /\ enginePc' = IF found THEN "diff" ELSE "failed"
       /\ engineError' = IF found THEN "" ELSE "no_commit"
  /\ UNCHANGED <<options, diffAnalysis, featureMapping, aiAnalysis, aiCalls, discoverCalls,
                 testSelection, engineResult, cfgVars, mapVars, selVars,
                 diffOutcome, gitVars, svcVars>>

\* analyzeDiff returns a result with n change records
AnalyzeDiffReturns ==
  /\ enginePc = "diff"
  /\ \E n \in 0..MaxDiffFiles : diffAnalysis' = Diff(n)
  /\ enginePc' = "map"
  /\ diffOutcome' = "returned"
  /\ UNCHANGED <<options, featureMapping, aiAnalysis, aiCalls, discoverCalls,
                 testSelection, engineResult, cfgVars, mapVars, selVars,
                 engineError, gitVars, svcVars>>

\* Variant: the error of analyzeDiff is swallowed and analyze goes on with an
\* empty diff.
AnalyzeDiffThrowsGoesOn ==
  /\ enginePc = "diff"
  /\ enginePc' = "map"
  /\ diffOutcome' = "threw"
  /\ diffAnalysis' = Diff(0)
  /\ UNCHANGED <<options, featureMapping, aiAnalysis, aiCalls, discoverCalls,
                 testSelection, engineResult, cfgVars, mapVars, selVars,
                 engineError, gitVars, svcVars>>

\* analyzeDiff throws: the catch of analyze logs and rethrows the error
AnalyzeDiffThrows ==
  /\ enginePc = "diff"
  /\ enginePc' = "failed"
  /\ diffOutcome' = "threw"
  /\ engineError' = "diff"
  /\ UNCHANGED <<options, diffAnalysis, featureMapping, aiAnalysis, aiCalls, discoverCalls,
                 testSelection, engineResult, cfgVars, mapVars, selVars,
                 gitVars, svcVars>>

\* Step 2: featureMapper.mapChangesToFeatures(diffAnalysis) is called
MapFromEngine ==
  /\ enginePc = "map"
  /\ mapPc = "idle"
  /\ EnterMap(diffAnalysis)
  /\ enginePc' = "mapping"
  /\ UNCHANGED <<options, diffAnalysis, featureMapping, aiAnalysis, aiCalls, discoverCalls,
                 testSelection, engineResult, cfgVars, selVars,
                 engineError, diffOutcome, gitVars, svcVars>>

\* TEOEngine.enhanceFeatures: enhancedConfidence of each feature
EnhanceFeatures(features, aiConfidence) ==
  [i \in 1..Len(features) |->
     [featureName |-> features[i].featureName,
      confidence |-> features[i].confidence,
      enhancedConfidence |->
        IF features[i].confidence + (aiConfidence * 2) \div 10 <= 100
        THEN features[i].confidence + (aiConfidence * 2) \div 10
        ELSE 100]]

\* The confidences (hundredths) an AI result may carry; 0 is replaced by 0.8.
AIConfidences == {0, 90}

\* The features with the enhanced confidence in place of the confidence.
AdoptEnhanced(features, aiConfidence) ==
  [i \in 1..Len(features) |->
     [features[i] EXCEPT
        !.confidence = EnhanceFeatures(features, aiConfidence)[i].enhancedConfidence]]

\* Variant: the feature mapping handed on is the one enhanced by the AI.
AIStepAdopts ==
  /\ enginePc = "mapping"
  /\ mapPc = "done"
  /\ IF options.useAI /\ Len(mapResult) > 0
     THEN /\ aiCalls' = aiCalls + 1
          /\ \/ \E c \in AIConfidences :
                  /\ aiAnalysis' = [present |-> TRUE, confidence |-> OrDefault(c, 80),
                                    enhancedFeatures |-> EnhanceFeatures(mapResult, c)]
                  /\ featureMapping' = AdoptEnhanced(mapResult, c)
             \/ /\ aiAnalysis' = NoAnalysis
                /\ featureMapping' = mapResult
     ELSE /\ aiCalls' = aiCalls
          /\ aiAnalysis' = NoAnalysis
          /\ featureMapping' = mapResult
  /\ enginePc' = "select"
  /\ UNCHANGED <<options, diffAnalysis, discoverCalls, testSelection, engineResult,
                 cfgVars, mapVars, selVars,
                 engineError, diffOutcome, gitVars, svcVars>>

\* Step 3: the AI step and its try/catch
AIStep ==
  /\ enginePc = "mapping"
  /\ mapPc = "done"
  /\ featureMapping' = mapResult
  /\ IF options.useAI /\ Len(mapResult) > 0
     THEN /\ aiCalls' = aiCalls + 1
          /\ \/ \E c \in AIConfidences :
                  aiAnalysis' = [present |-> TRUE, confidence |-> OrDefault(c, 80),
                                 enhancedFeatures |-> EnhanceFeatures(mapResult, c)]
             \/ aiAnalysis' = NoAnalysis
     ELSE /\ aiCalls' = aiCalls
          /\ aiAnalysis' = NoAnalysis
  /\ enginePc' = "select"
  /\ UNCHANGED <<options, diffAnalysis, discoverCalls, testSelection, engineResult,
                 cfgVars, mapVars, selVars,
                 engineError, diffOutcome, gitVars, svcVars>>

\* TEOEngine.calculateTimeSaved
CalculateTimeSaved(summary) == (summary.totalAvailable - summary.totalSelected) * 5000

\* The summary of the result object of analyze
AnalyzeResult(sel) ==
  [filesChanged |-> Len(diffAnalysis.changes),
   featuresDetected |-> Len(featureMapping),
   testsSelected |-> Len(sel.selectedTests),
   reductionPercentage |-> sel.summary.reductionPercentage,
   estimatedTimeSaved |-> CalculateTimeSaved(sel.summary)]

\* Step 4 with features: TestOrchestrator.selectTests discovers the tests,
\* selects among them, and analyze returns
SelectWithFeatures ==
  /\ enginePc = "select"
  /\ Len(featureMapping) > 0
  /\ options.framework \in Integrations
  /\ discoverCalls' = discoverCalls + 1
  /\ \E tests \in TestLists :
       /\ RunSelectTests(tests, featureMapping)
       /\ testSelection' = [framework |-> options.framework,
                            selectedTests |-> selection'.selectedTests,
                            selectionReasons |-> selection'.selectionReasons,
                            summary |-> selection'.summary]
  /\ engineResult' = AnalyzeResult(testSelection')
  /\ enginePc' = "done"
  /\ UNCHANGED <<options, diffAnalysis, featureMapping, aiAnalysis, aiCalls,
                 cfgVars, mapVars,
                 engineError, diffOutcome, gitVars, svcVars>>

\* Step 4 with features, failing: no integration for the framework, or
\* discoverTests throws; analyze rethrows
SelectFails ==
  /\ enginePc = "select"
  /\ Len(featureMapping) > 0
  /\ \/ /\ options.framework \notin Integrations
        /\ discoverCalls' = discoverCalls
     \/ /\ options.framework \in Integrations
        /\ discoverCalls' = discoverCalls + 1
  /\ enginePc' = "failed"
  /\ engineError' = "select"
  /\ UNCHANGED <<options, diffAnalysis, featureMapping, aiAnalysis, aiCalls,
                 testSelection, engineResult, cfgVars, mapVars, selVars,
                 diffOutcome, gitVars, svcVars>>

\* Variant: the tests are discovered although no feature was detected.
SelectWithoutFeaturesDiscovers ==
  /\ enginePc = "select"
  /\ Len(featureMapping) = 0
  /\ discoverCalls' = discoverCalls + 1
  /\ testSelection' = [NoSelection EXCEPT !.framework = options.framework]
  /\ engineResult' = AnalyzeResult(testSelection')
  /\ enginePc' = "done"
  /\ UNCHANGED <<options, diffAnalysis, featureMapping, aiAnalysis, aiCalls,
                 cfgVars, mapVars, selVars,
                 engineError, diffOutcome, gitVars, svcVars>>

\* Step 4 without features: the empty selection, and analyze returns
SelectWithoutFeatures ==
  /\ enginePc = "select"
  /\ Len(featureMapping) = 0
  /\ testSelection' = [NoSelection EXCEPT !.framework = options.framework]
  /\ engineResult' = AnalyzeResult(testSelection')
  /\ enginePc' = "done"
  /\ UNCHANGED <<options, diffAnalysis, featureMapping, aiAnalysis, aiCalls, discoverCalls,
                 cfgVars, mapVars, selVars,
                 engineError, diffOutcome, gitVars, svcVars>>

EngineNext ==
  \/ AnalyzeCall
  \/ LastCommit
  \/ AnalyzeDiffReturns
  \/ AnalyzeDiffThrows
  \/ MapFromEngine
  \/ StrategyReturns
  \/ StrategyThrows
  \/ MapFinish
  \/ AIStep
  \/ SelectWithFeatures
  \/ SelectFails
  \/ SelectWithoutFeatures

\* ---------------------------------------------------------- GitDiffAnalyzer
\* Largest number of files in the diff summary of an analyzeDiff run.
MaxSummaryFiles == 2

\* ChangeType
ADDED == "added"
MODIFIED == "modified"
DELETED == "deleted"
RENAMED == "renamed"

\* LANGUAGE_EXTENSIONS, the keys the model's files use; "" stands for null.
LANGUAGE_EXTENSIONS ==
  (<<".", "j", "s">> :> "javascript") @@ (<<".", "p", "y">> :> "python") @@
  (<<".", "m", "d">> :> "markdown")

\* PARSERS: the languages initializeParsers registers a parser for.
PARSERS == {"javascript", "typescript", "python"}

\* this.repoPath
RepoPath == <<"/", "r">>

\* Largest index of character c in s, 0 when absent.
LastIndexOf(s, c) ==
  IF \E i \in 1..Len(s) : s[i] = c
  THEN CHOOSE i \in 1..Len(s) : s[i] = c /\ \A j \in (i + 1)..Len(s) : s[j] # c
  ELSE 0

\* path.extname: from the last dot of the base name, "" when the base name
\* has no dot or only a leading one.
ExtName(p) ==
  LET dot == LastIndexOf(p, ".")
      base == LastIndexOf(p, "/") + 1
  IN IF dot = 0 \/ dot <= base THEN <<>> ELSE SubSeq(p, dot, Len(p))

\* path.resolve(this.repoPath, file) for a relative file of the summary
PathResolve(file) == RepoPath \o <<"/">> \o file

\* path.relative(this.repoPath, filePath) for a path below repoPath
PathRelative(filePath) == SubSeq(filePath, Len(RepoPath) + 2, Len(filePath))

\* GitDiffAnalyzer.detectLanguage
DetectLanguage(filePath) ==
  LET ext == ToLowerCase(ExtName(filePath))
  IN IF ext \in DOMAIN LANGUAGE_EXTENSIONS THEN LANGUAGE_EXTENSIONS[ext] ELSE ""

\* A node of a tree-sitter syntax tree.
Node(t, x, c) == [type |-> t, text |-> x, children |-> c]
Leaf(t, x) == Node(t, x, <<>>)

\* function f() {}; const h = () => 1; class K { m() {} }; import i
JsTree ==
  Node("program", <<>>,
    << Node("function_declaration", <<>>,
         << Leaf("function", <<>>), Leaf("identifier", <<"f">>),
            Leaf("statement_block", <<>>) >>),
       Node("lexical_declaration", <<>>,
         << Node("variable_declarator", <<>>,
              << Leaf("identifier", <<"h">>),
                 Node("arrow_function", <<>>, << Leaf("formal_parameters", <<>>) >>) >>) >>),
       Node("class_declaration", <<>>,
         << Leaf("class", <<>>), Leaf("identifier", <<"K">>),
            Node("class_body", <<>>,
              << Node("method_definition", <<>>,
                   << Leaf("property_identifier", <<"m">>) >>) >>) >>),
       Leaf("import_statement", <<"i", " ", "x">>) >>)

\* def g(): pass; class P: pass; from x import y
PyTree ==
  Node("module", <<>>,
    << Node("function_definition", <<>>,
         << Leaf("def", <<>>), Leaf("identifier", <<"g">>) >>),
       Node("class_definition", <<>>,
         << Leaf("class", <<>>), Leaf("identifier", <<"P">>) >>),
       Leaf("import_from_statement", <<"x", "y">>) >>)

\* The files of the repository at the head commit, by relative path, with
\* the tree the parser builds from their content.
FileA == <<"a", ".", "j", "s">>
FileB == <<"s", "/", "B", ".", "P", "Y">>
FileC == <<"c", ".", "m", "d">>
FileD == <<".", "d">>
HeadTree == (FileA :> JsTree) @@ (FileB :> PyTree)

\* An entry of diffSummary.files
FileSummary(f, b, i, d) == [file |-> f, binary |-> b, insertions |-> i, deletions |-> d]
FileSummaries ==
  { FileSummary(FileA, FALSE, 2, 1),
    FileSummary(FileA, FALSE, 2, 0),
    FileSummary(FileA, TRUE, 2, 0),
    FileSummary(FileB, FALSE, 0, 3),
    FileSummary(FileB, FALSE, 0, 0),
    FileSummary(FileC, FALSE, 1, 1),
    FileSummary(FileD, TRUE, 0, 0) }

\* The diff summaries of the model: each file at most once.
SummaryLists ==
  { l \in UNION { [1..n -> FileSummaries] : n \in 0..MaxSummaryFiles } :
      \A i, j \in 1..Len(l) : i # j => l[i].file # l[j].file }

\* What reading and parsing the two versions of a file meet: git.show of
\* the base and of the head commit fails or not, the head content is empty
\* or not, parser.parse throws or not.
Fault(o, n, e, p) == [oldRead |-> o, newRead |-> n, newEmpty |-> e, parse |-> p]
NoFault == Fault("ok", "ok", FALSE, "ok")
Faults ==
  { NoFault,
    Fault("fails", "ok", FALSE, "ok"),
    Fault("ok", "fails", FALSE, "ok"),
    Fault("fails", "fails", FALSE, "ok"),
    Fault("ok", "ok", TRUE, "ok"),
    Fault("ok", "ok", FALSE, "throws") }

\* new CodeChange({...})
CodeChange(p, t, a, r) ==
  [filePath |-> p, changeType |-> t, linesAdded |-> a, linesRemoved |-> r,
   functionsChanged |-> <<>>, classesChanged |-> <<>>, importsChanged |-> <<>>]

\* GitDiffAnalyzer.walkTree: the nodes in the order the cursor visits them
RECURSIVE WalkTree(_)
WalkTree(node) ==
  <<node>> \o Flatten([i \in 1..Len(node.children) |-> WalkTree(node.children[i])])

\* isFunctionNode, isClassNode, isImportNode
FunctionTypes ==
  [javascript |-> {"function_declaration", "arrow_function", "method_definition"},
   typescript |-> {"function_declaration", "arrow_function", "method_definition"},
   python |-> {"function_definition"}]
ClassTypes ==
  [javascript |-> {"class_declaration"}, typescript |-> {"class_declaration"},
   python |-> {"class_definition"}]
ImportTypes ==
  [javascript |-> {"import_statement"}, typescript |-> {"import_statement"},
   python |-> {"import_statement", "import_from_statement"}]
IsFunctionNode(node, language) ==
  language \in DOMAIN FunctionTypes /\ node.type \in FunctionTypes[language]
IsClassNode(node, language) ==
  language \in DOMAIN ClassTypes /\ node.type \in ClassTypes[language]
IsImportNode(node, language) ==
  language \in DOMAIN ImportTypes /\ node.type \in ImportTypes[language]

\* extractNodeName: the text of the first identifier child, <<>> for null
ExtractNodeName(node) ==
  IF \E i \in 1..Len(node.children) : node.children[i].type = "identifier"
  THEN LET i == CHOOSE k \in 1..Len(node.children) :
                  /\ node.children[k].type = "identifier"
                  /\ \A j \in 1..(k - 1) : node.children[j].type # "identifier"
       IN node.children[i].text
  ELSE <<>>

\* String.prototype.trim
RECURSIVE TrimStart(_)
TrimStart(s) == IF s # <<>> /\ Head(s) = " " THEN TrimStart(Tail(s)) ELSE s
RECURSIVE TrimEnd(_)
TrimEnd(s) ==
  IF s # <<>> /\ s[Len(s)] = " " THEN TrimEnd(SubSeq(s, 1, Len(s) - 1)) ELSE s
Trim(s) == TrimEnd(TrimStart(s))

\* The names pushed for a list of nodes (a null or empty name is not pushed).
NamesOf(nodes) ==
  SelectSeq([i \in 1..Len(nodes) |-> ExtractNodeName(nodes[i])], LAMBDA n : n # <<>>)

\* getFunctionQuery
GetFunctionQuery(language) == ""

\* GitDiffAnalyzer.extractFunctions
ExtractFunctions(tree, language) ==
  IF GetFunctionQuery(language) = "" THEN <<>>
  ELSE NamesOf(SelectSeq(WalkTree(tree), LAMBDA n : IsFunctionNode(n, language)))

\* GitDiffAnalyzer.extractClasses
ExtractClasses(tree, language) ==
  NamesOf(SelectSeq(WalkTree(tree), LAMBDA n : IsClassNode(n, language)))

\* GitDiffAnalyzer.extractImports
ExtractImports(tree, language) ==
  LET nodes == SelectSeq(WalkTree(tree),
                         LAMBDA n : IsImportNode(n, language) /\ n.text # <<>>)
  IN [i \in 1..Len(nodes) |-> Trim(nodes[i].text)]

\* GitDiffAnalyzer.performSyntaxAnalysis: the change record it leaves, and
\* whether its try block caught an error.
PerformSyntaxAnalysis(change, fault) ==
  LET language == DetectLanguage(change.filePath)
      file == PathRelative(change.filePath)
      oldContent == fault.oldRead = "ok"
      newContent == fault.newRead = "ok" /\ ~fault.newEmpty /\ file \in DOMAIN HeadTree
  IN IF language = "" \/ language \notin PARSERS
     THEN [error |-> FALSE, change |-> change]
     ELSE IF (oldContent \/ newContent) /\ fault.parse = "throws"
     THEN [error |-> TRUE, change |-> change]
     ELSE IF newContent
     THEN [error |-> FALSE,
           change |-> [change EXCEPT
                         !.functionsChanged = ExtractFunctions(HeadTree[file], language),
                         !.classesChanged = ExtractClasses(HeadTree[file], language),
                         !.importsChanged = ExtractImports(HeadTree[file], language)]]
     ELSE [error |-> FALSE, change |-> change]

\* Variant: binary files are classified by their counts like the others.
ChangeTypeOfCounts(fileSummary) ==
  IF fileSummary.insertions > 0 /\ fileSummary.deletions = 0 THEN ADDED
  ELSE IF fileSummary.insertions = 0 /\ fileSummary.deletions > 0 THEN DELETED
  ELSE MODIFIED

\* analyzeFileChange: "Determine change type"
ChangeTypeOf(fileSummary) ==
  IF fileSummary.binary THEN MODIFIED
  ELSE IF fileSummary.insertions > 0 /\ fileSummary.deletions = 0 THEN ADDED
  ELSE IF fileSummary.insertions = 0 /\ fileSummary.deletions > 0 THEN DELETED
  ELSE MODIFIED

\* Variant: an error met by the syntax analysis leaves analyzeFileChange.
AnalyzeFileChangeRethrows(fileSummary, fault) ==
  LET changeType == ChangeTypeOf(fileSummary)
      change == CodeChange(PathResolve(fileSummary.file), changeType,
                           fileSummary.insertions, fileSummary.deletions)
      r == PerformSyntaxAnalysis(change, fault)
  IN IF ~fileSummary.binary /\ changeType # DELETED
     THEN [threw |-> r.error, change |-> r.change]
     ELSE [threw |-> FALSE, change |-> change]

\* GitDiffAnalyzer.analyzeFileChange: whether it throws, and the change
\* record it returns.
AnalyzeFileChange(fileSummary, fault) ==
  LET changeType == ChangeTypeOf(fileSummary)
      change == CodeChange(PathResolve(fileSummary.file), changeType,
                           fileSummary.insertions, fileSummary.deletions)
  IN IF ~fileSummary.binary /\ changeType # DELETED
     THEN [threw |-> FALSE, change |-> PerformSyntaxAnalysis(change, fault).change]
     ELSE [threw |-> FALSE, change |-> change]

NoRefs == [base |-> "none", head |-> "none"]

GitIdle ==
  /\ diffPc = "idle"
  /\ repoCheck = "none"
  /\ refs = NoRefs
  /\ summaryCalls = 0
  /\ diffSummary = <<>>
  /\ fileIdx = 0
  /\ changes = <<>>
  /\ faults = <<>>

\* analyzeDiff(baseRef, headRef) up to the end of validateRepository:
\* git.checkIsRepo() resolves to true or to false, or rejects.
ValidateRepository ==
  /\ diffPc = "idle"
  /\ \E r \in {"true", "false", "rejected"} :
       /\ repoCheck' = r
       /\ diffPc' = IF r = "rejected" THEN "failed" ELSE "base"
  /\ UNCHANGED <<refs, summaryCalls, diffSummary, fileIdx, changes, faults,
                 cfgVars, mapVars, selVars, engVars, svcVars>>

\* resolveRef(baseRef): git.revparse resolves or rejects
ResolveBase ==
  /\ diffPc = "base"
  /\ \E ok \in BOOLEAN :
       /\ refs' = [refs EXCEPT !.base = IF ok THEN "ok" ELSE "fail"]
       /\ diffPc' = IF ok THEN "head" ELSE "failed"
  /\ UNCHANGED <<repoCheck, summaryCalls, diffSummary, fileIdx, changes, faults,
                 cfgVars, mapVars, selVars, engVars, svcVars>>

\* resolveRef(headRef)
ResolveHead ==
  /\ diffPc = "head"
  /\ \E ok \in BOOLEAN :
       /\ refs' = [refs EXCEPT !.head = IF ok THEN "ok" ELSE "fail"]
       /\ diffPc' = IF ok THEN "summary" ELSE "failed"
  /\ UNCHANGED <<repoCheck, summaryCalls, diffSummary, fileIdx, changes, faults,
                 cfgVars, mapVars, selVars, engVars, svcVars>>

\* git.diffSummary([baseCommit, headCommit]) returns
GetDiffSummary ==
  /\ diffPc = "summary"
  /\ summaryCalls' = summaryCalls + 1
  /\ \E l \in SummaryLists : diffSummary' = l
  /\ fileIdx' = 1
  /\ diffPc' = "files"
  /\ UNCHANGED <<repoCheck, refs, changes, faults, cfgVars, mapVars, selVars, engVars, svcVars>>

\* git.diffSummary rejects: analyzeDiff rethrows
DiffSummaryFails ==
  /\ diffPc = "summary"
  /\ summaryCalls' = summaryCalls + 1
  /\ diffPc' = "failed"
  /\ UNCHANGED <<repoCheck, refs, diffSummary, fileIdx, changes, faults,
                 cfgVars, mapVars, selVars, engVars, svcVars>>

\* One iteration of the loop over diffSummary.files, with its try/catch
AnalyzeFile ==
  /\ diffPc = "files"
  /\ fileIdx <= Len(diffSummary)
  /\ \E fault \in Faults :
       LET r == AnalyzeFileChange(diffSummary[fileIdx], fault)
       IN /\ changes' = IF r.threw THEN changes ELSE Append(changes, r.change)
          /\ faults' = Append(faults, fault)
  /\ fileIdx' = fileIdx + 1
  /\ UNCHANGED <<diffPc, repoCheck, refs, summaryCalls, diffSummary,
                 cfgVars, mapVars, selVars, engVars, svcVars>>

\* After the loop: the DiffAnalysisResult is built and returned
AnalyzeDiffReturn ==
  /\ diffPc = "files"
  /\ fileIdx > Len(diffSummary)
  /\ diffPc' = "done"
  /\ UNCHANGED <<repoCheck, refs, summaryCalls, diffSummary, fileIdx, changes, faults,
                 cfgVars, mapVars, selVars, engVars, svcVars>>

DiffNext ==
  \/ ValidateRepository
  \/ ResolveBase
  \/ ResolveHead
  \/ GetDiffSummary
  \/ DiffSummaryFails
  \/ AnalyzeFile
  \/ AnalyzeDiffReturn

\* ------------------------------------------------------------- withRetry
\* The patterns of shouldNotRetry.
InvalidApiKey ==
  <<"i", "n", "v", "a", "l", "i", "d", "_", "a", "p", "i", "_", "k", "e", "y">>
InsufficientQuota ==
  <<"i", "n", "s", "u", "f", "f", "i", "c", "i", "e", "n", "t", "_", "q", "u", "o",
    "t", "a">>
ModelNotFound ==
  <<"m", "o", "d", "e", "l", "_", "n", "o", "t", "_", "f", "o", "u", "n", "d">>
InvalidRequest ==
  <<"i", "n", "v", "a", "l", "i", "d", "_", "r", "e", "q", "u", "e", "s", "t">>
Authentication ==
  <<"a", "u", "t", "h", "e", "n", "t", "i", "c", "a", "t", "i", "o", "n">>
Authorization ==
  <<"a", "u", "t", "h", "o", "r", "i", "z", "a", "t", "i", "o", "n">>
NoRetryPatterns ==
  {InvalidApiKey, InsufficientQuota, ModelNotFound, InvalidRequest, Authentication,
   Authorization}

\* The message of the error of createTimeoutPromise, with the default
\* timeout.
TimeoutMessage ==
  <<"A", "I", " ", "A", "P", "I", " ", "t", "i", "m", "e", "o", "u", "t", " ", "a",
    "f", "t", "e", "r", " ", "3", "0", "0", "0", "0", "m", "s">>

\* Messages of the errors the operation rejects with.
RateLimitMessage ==
  <<"R", "a", "t", "e", " ", "l", "i", "m", "i", "t">>
QuotaMessage ==
  <<"I", "n", "s", "u", "f", "f", "i", "c", "i", "e", "n", "t", "_", "Q", "u", "o",
    "t", "a">>
AuthorizationMessage ==
  <<"A", "u", "t", "h", "o", "r", "i", "z", "a", "t", "i", "o", "n", " ", "f", "a",
    "i", "l", "e", "d">>
OperationMessages == {RateLimitMessage, QuotaMessage, AuthorizationMessage}

\* BaseAIProvider.shouldNotRetry
ShouldNotRetry(message) ==
  \E pattern \in NoRetryPatterns : Includes(ToLowerCase(message), pattern)

\* config.max_retries, in tenths: the whole numbers up to MaxRetries and two
\* values between whole numbers.
MaxRetriesChoices == {0, 5, 25} \cup { 10 * k : k \in 1..MaxRetries }

\* 2 to the power n
RECURSIVE Pow2(_)
Pow2(n) == IF n = 0 THEN 1 ELSE 2 * Pow2(n - 1)

Min(a, b) == IF a <= b THEN a ELSE b

\* Math.min(1000 * Math.pow(2, attempt - 1), 10000)
BackoffDelay(n) == Min(1000 * Pow2(n - 1), 10000)

\* An error with its message and the attempt that raised it; lastError is
\* undefined until an attempt has failed.
AttemptError(m, n) == [defined |-> TRUE, message |-> m, attempt |-> n]
Undefined == [defined |-> FALSE, message |-> <<>>, attempt |-> 0]

NoOutcome == [kind |-> "none", attempt |-> 0, error |-> Undefined, typeError |-> FALSE]

RetryIdle ==
  /\ retryPc = "idle"
  /\ configMaxRetries = 0
  /\ maxRetries = 0
  /\ attempt = 0
  /\ attemptLog = <<>>
  /\ sleeps = <<>>
  /\ lastError = Undefined
  /\ retryOutcome = NoOutcome

\* withRetry(operation): let lastError, attempt = 1
WithRetryCall ==
  /\ retryPc = "idle"
  /\ attempt' = 1
  /\ retryPc' = "loop"
  /\ UNCHANGED <<configMaxRetries, maxRetries, attemptLog, sleeps, lastError,
                 retryOutcome, coreVars, createVars, remoteVars, provVars>>

\* One iteration: the operation resolves before the timeout.
OperationResolves ==
  /\ retryPc = "loop"
  /\ attempt * 10 <= maxRetries
  /\ attemptLog' = Append(attemptLog, [attempt |-> attempt, ok |-> TRUE,
                                       error |-> Undefined])
  /\ retryOutcome' = [kind |-> "returned", attempt |-> attempt, error |-> Undefined,
                      typeError |-> FALSE]
  /\ retryPc' = "returned"
  /\ UNCHANGED <<configMaxRetries, maxRetries, attempt, sleeps, lastError,
                 coreVars, createVars, remoteVars, provVars>>

\* One iteration: the race rejects, with the error of the operation or
\* with the timeout, and the catch block decides how to go on.
AttemptFails ==
  /\ retryPc = "loop"
  /\ attempt * 10 <= maxRetries
  /\ \E m \in OperationMessages \cup {TimeoutMessage} :
       LET error == AttemptError(m, attempt)
       IN /\ lastError' = error
          /\ attemptLog' = Append(attemptLog, [attempt |-> attempt, ok |-> FALSE,
                                               error |-> error])
          /\ IF ShouldNotRetry(m)
             THEN retryPc' = "after" /\ UNCHANGED <<attempt, sleeps>>
             ELSE IF attempt * 10 < maxRetries
                  THEN /\ sleeps' = Append(sleeps, [after |-> attempt,
                                                     delay |-> BackoffDelay(attempt)])
                       /\ retryPc' = "sleeping"
                       /\ UNCHANGED attempt
                  ELSE /\ attempt' = attempt + 1
                       /\ retryPc' = "loop"
                       /\ UNCHANGED sleeps
  /\ UNCHANGED <<configMaxRetries, maxRetries, retryOutcome,
                 coreVars, createVars, remoteVars, provVars>>

\* The sleep ends and the loop goes to the next attempt.
SleepEnds ==
  /\ retryPc = "sleeping"
  /\ attempt' = attempt + 1
  /\ retryPc' = "loop"
  /\ UNCHANGED <<configMaxRetries, maxRetries, attemptLog, sleeps, lastError,
                 retryOutcome, coreVars, createVars, remoteVars, provVars>>

\* The loop condition attempt <= this.maxRetries fails.
LoopEnds ==
  /\ retryPc = "loop"
  /\ ~(attempt * 10 <= maxRetries)
  /\ retryPc' = "after"
  /\ UNCHANGED <<configMaxRetries, maxRetries, attempt, attemptLog, sleeps, lastError,
                 retryOutcome, coreVars, createVars, remoteVars, provVars>>

\* After the loop: logger.error reads lastError.message, which throws a
\* TypeError when lastError is undefined; otherwise lastError is thrown.
ThrowLastError ==
  /\ retryPc = "after"
  /\ retryOutcome' = [kind |-> "threw", attempt |-> lastError.attempt,
                      error |-> lastError, typeError |-> ~lastError.defined]
  /\ retryPc' = "threw"
  /\ UNCHANGED <<configMaxRetries, maxRetries, attempt, attemptLog, sleeps, lastError,
                 coreVars, createVars, remoteVars, provVars>>

RetryNext ==
  \/ WithRetryCall
  \/ OperationResolves
  \/ AttemptFails
  \/ SleepEnds
  \/ LoopEnds
  \/ ThrowLastError

\* ------------------------------------------------------ AIProviderManager
\* ProviderType: a type createProvider knows, and one it does not.
OLLAMA == "ollama"
ProviderTypes == {"openai", "azure-openai", "anthropic", "google-gemini", OLLAMA}

\* The configuration of the manager: per slot the type of the provider,
\* "" when the slot is not configured.
AIConfig(p, f, l) == [primary |-> p, fallback |-> f, local |-> l]
AIConfigs == { AIConfig(p, f, l) : p, f, l \in {"", OLLAMA, "custom"} }

\* Whether initializeProviders registers the provider of a slot:
\* createProvider throws for an unknown type, which is logged.
Registers(type) == type # "" /\ type \in ProviderTypes

\* AIProviderManager.initializeProviders: the primary provider and the
\* fallbackProviders list, providers named by their slot.
InitializeProviders(cfg) ==
  [primaryProvider |-> IF Registers(cfg.primary) THEN "primary" ELSE "null",
   fallbackProviders |->
     (IF Registers(cfg.fallback) THEN <<"fallback">> ELSE <<>>)
       \o (IF Registers(cfg.local) THEN <<"local">> ELSE <<>>)]

\* The featureMapping argument: null, or a feature with a name.
NullFeature == [isNull |-> TRUE, featureName |-> <<>>]
NamedFeature == [isNull |-> FALSE, featureName |-> NameAb]

\* featureMapping?.featureName || 'unknown'
FeatureNameOf(f) == IF f.isNull \/ f.featureName = <<>> THEN <<"unknown">> ELSE f.featureName

\* An analysis: confidence in hundredths, fallback is metadata.fallback.
Analysis(n, level, c, fb) ==
  [featureName |-> n, impactLevel |-> level, confidence |-> c, fallback |-> fb]
NoAnalysisYet == Analysis(<<>>, "", 0, FALSE)

\* What parseAnalysisResponse makes of the response of a provider.
ProviderAnalyses(n) == { Analysis(n, "high", 90, FALSE), Analysis(n, "medium", 30, FALSE) }

\* AIProviderManager.createFallbackAnalysis
CreateFallbackAnalysis(n) == Analysis(n, "medium", 30, TRUE)

\* A provider tried by analyzeImpact and how the try ended.
Tried(pr, ok, a) == [provider |-> pr, ok |-> ok, analysis |-> a]

ProvidersIdle ==
  /\ provPc = "idle"
  /\ aiConfig = AIConfig("", "", "")
  /\ primaryProvider = "null"
  /\ fallbackProviders = <<>>
  /\ provIdx = 0
  /\ featureArg = NullFeature
  /\ tried = <<>>
  /\ analysis = NoAnalysisYet

\* analyzeImpact(diffResult, featureMapping, options) is called.
AnalyzeImpactCall ==
  /\ provPc = "idle"
  /\ featureArg' \in {NullFeature, NamedFeature}
  /\ provPc' = "primary"
  /\ UNCHANGED <<aiConfig, primaryProvider, fallbackProviders, provIdx, tried, analysis,
                 coreVars, createVars, remoteVars, retryVars>>

\* if (this.primaryProvider) is false.
NoPrimary ==
  /\ provPc = "primary"
  /\ primaryProvider = "null"
  /\ provIdx' = 1
  /\ provPc' = "fallbacks"
  /\ UNCHANGED <<aiConfig, primaryProvider, fallbackProviders, featureArg, tried, analysis,
                 coreVars, createVars, remoteVars, retryVars>>

\* The primary provider builds the prompt, answers, and the answer is
\* parsed: analyzeImpact returns the analysis.
PrimarySucceeds ==
  /\ provPc = "primary"
  /\ primaryProvider # "null"
  /\ \E a \in ProviderAnalyses(FeatureNameOf(featureArg)) :
       /\ tried' = Append(tried, Tried(primaryProvider, TRUE, a))
       /\ analysis' = a
  /\ provPc' = "resolved"
  /\ UNCHANGED <<aiConfig, primaryProvider, fallbackProviders, provIdx, featureArg,
                 coreVars, createVars, remoteVars, retryVars>>

\* A step of the primary provider throws; the inner catch logs it.
PrimaryFails ==
  /\ provPc = "primary"
  /\ primaryProvider # "null"
  /\ tried' = Append(tried, Tried(primaryProvider, FALSE, NoAnalysisYet))
  /\ provIdx' = 1
  /\ provPc' = "fallbacks"
  /\ UNCHANGED <<aiConfig, primaryProvider, fallbackProviders, featureArg, analysis,
                 coreVars, createVars, remoteVars, retryVars>>

\* One iteration of the loop over fallbackProviders that returns.
FallbackSucceeds ==
  /\ provPc = "fallbacks"
  /\ provIdx <= Len(fallbackProviders)
  /\ \E a \in ProviderAnalyses(FeatureNameOf(featureArg)) :
       /\ tried' = Append(tried, Tried(fallbackProviders[provIdx], TRUE, a))
       /\ analysis' = a
  /\ provPc' = "resolved"
  /\ UNCHANGED <<aiConfig, primaryProvider, fallbackProviders, provIdx, featureArg,
                 coreVars, createVars, remoteVars, retryVars>>

\* One iteration of the loop over fallbackProviders that throws; the
\* inner catch logs it.
FallbackFails ==
  /\ provPc = "fallbacks"
  /\ provIdx <= Len(fallbackProviders)
  /\ tried' = Append(tried, Tried(fallbackProviders[provIdx], FALSE, NoAnalysisYet))
  /\ provIdx' = provIdx + 1
  /\ UNCHANGED <<provPc, aiConfig, primaryProvider, fallbackProviders, featureArg, analysis,
                 coreVars, createVars, remoteVars, retryVars>>

\* Variant: the error thrown after the loop leaves analyzeImpact.
AllProvidersFailedRejects ==
  /\ provPc = "fallbacks"
  /\ provIdx > Len(fallbackProviders)
  /\ provPc' = "rejected"
  /\ UNCHANGED <<aiConfig, primaryProvider, fallbackProviders, provIdx, featureArg, tried,
                 analysis, coreVars, createVars, remoteVars, retryVars>>

\* After the loop: throw new Error('All AI providers failed'), caught by
\* the outer catch, which returns the fallback analysis.
AllProvidersFailed ==
  /\ provPc = "fallbacks"
  /\ provIdx > Len(fallbackProviders)
  /\ analysis' = CreateFallbackAnalysis(FeatureNameOf(featureArg))
  /\ provPc' = "resolved"
  /\ UNCHANGED <<aiConfig, primaryProvider, fallbackProviders, provIdx, featureArg, tried,
                 coreVars, createVars, remoteVars, retryVars>>

ProvidersNext ==
  \/ AnalyzeImpactCall
  \/ NoPrimary
  \/ PrimarySucceeds
  \/ PrimaryFails
  \/ FallbackSucceeds
  \/ FallbackFails
  \/ AllProvidersFailed

\* ------------------------------------------------------ TEOEngine.create
\* Remote URLs and the base path (process.cwd()).
UrlA == <<"h", "/", "r", ".", "g", "i", "t">>
UrlB == <<"h", "/", "s">>
BasePath == <<"/", "w">>
DotGit == <<".", "g", "i", "t">>
TeoCacheRemoteRepos ==
  <<"/", ".", "t", "e", "o", "_", "c", "a", "c", "h", "e",
    "/", "r", "e", "m", "o", "t", "e", "_", "r", "e", "p", "o", "s", "/">>

\* config.get('git', {}): the configurations create is run with.
GitConfig(url, p) == [remote_repository_url |-> url, repo_path |-> p]
GitConfigs ==
  { GitConfig(<<>>, <<>>), GitConfig(<<>>, <<"/", "p">>),
    GitConfig(UrlA, <<>>), GitConfig(UrlB, <<"/", "p">>) }

\* What the local path of the remote repository holds: whether it is the
\* root of a repository, the fetch URL of its remote 'origin' (<<>> when it
\* has none) and whether the directory is empty.
LocalRepo(r, o, e) == [isRepo |-> r, origin |-> o, empty |-> e]
LocalRepos ==
  { LocalRepo(FALSE, <<>>, TRUE), LocalRepo(FALSE, <<>>, FALSE),
    LocalRepo(TRUE, UrlA, FALSE), LocalRepo(TRUE, UrlB, FALSE),
    LocalRepo(TRUE, <<>>, FALSE) }

\* path.basename(p, ext)
BaseName(p, ext) ==
  LET base == SubSeq(p, LastIndexOf(p, "/") + 1, Len(p))
  IN IF Len(base) > Len(ext) /\ SubSeq(base, Len(base) - Len(ext) + 1, Len(base)) = ext
     THEN SubSeq(base, 1, Len(base) - Len(ext))
     ELSE base

\* The repoPath the GitDiffAnalyzer constructor sets.
AnalyzerRepoPath(cfg) ==
  IF cfg.remote_repository_url # <<>>
  THEN BasePath \o TeoCacheRemoteRepos \o BaseName(cfg.remote_repository_url, DotGit)
  ELSE IF cfg.repo_path # <<>> THEN cfg.repo_path ELSE BasePath

\* An error: the text its message starts with and the message of its cause.
ErrorOf(t, c) == [text |-> t, cause |-> c]
NoError == ErrorOf("", "")

CreateIdle ==
  /\ createPc = "idle"
  /\ gitConfig = GitConfig(<<>>, <<>>)
  /\ repoPath = <<>>
  /\ initCalls = 0
  /\ createError = NoError
  /\ components = <<>>
  /\ remotePc = "idle"
  /\ localRepo = LocalRepo(FALSE, <<>>, TRUE)
  /\ localAtCall = LocalRepo(FALSE, <<>>, TRUE)
  /\ isRepo = FALSE
  /\ remoteUrlCorrect = FALSE
  /\ gitLog = <<>>
  /\ thrown = ""
  /\ remoteError = ""

\* new TEOEngine(config): the GitDiffAnalyzer constructor completes.
TEOEngineConstructor ==
  /\ createPc = "idle"
  /\ repoPath' = AnalyzerRepoPath(gitConfig)
  /\ createPc' = "initialize"
  /\ UNCHANGED <<gitConfig, initCalls, createError, components, remoteVars, coreVars,
                 retryVars, provVars>>

\* new TEOEngine(config): fs.ensureDirSync throws in the GitDiffAnalyzer
\* constructor, which throws in turn.
TEOEngineConstructorThrows ==
  /\ createPc = "idle"
  /\ gitConfig.remote_repository_url # <<>>
  /\ createError' = ErrorOf("Failed to create directory for remote repository: ",
                            "ensureDirSync")
  /\ createPc' = "failed"
  /\ UNCHANGED <<gitConfig, repoPath, initCalls, components, remoteVars, coreVars,
                 retryVars, provVars>>

\* _initialize without a remote repository.
InitializeLocal ==
  /\ createPc = "initialize"
  /\ gitConfig.remote_repository_url = <<>>
  /\ createPc' = "components"
  /\ UNCHANGED <<gitConfig, repoPath, initCalls, createError, components, remoteVars,
                 coreVars, retryVars, provVars>>

\* _initialize calls initRemoteRepo(url, this.gitAnalyzer.repoPath).
InitializeRemote ==
  /\ createPc = "initialize"
  /\ gitConfig.remote_repository_url # <<>>
  /\ initCalls' = initCalls + 1
  /\ localAtCall' = localRepo
  /\ remotePc' = "checkIsRepo"
  /\ createPc' = "awaitRemote"
  /\ UNCHANGED <<gitConfig, repoPath, createError, components, localRepo, isRepo,
                 remoteUrlCorrect, gitLog, thrown, remoteError, coreVars,
                 retryVars, provVars>>

\* initRemoteRepo: this.git.cwd(localPath).checkIsRepo('root')
CheckIsRepo ==
  /\ remotePc = "checkIsRepo"
  /\ isRepo' = localRepo.isRepo
  /\ gitLog' = Append(gitLog, "checkIsRepo")
  /\ remotePc' = IF localRepo.isRepo THEN "getRemotes" ELSE "emptyDir"
  /\ UNCHANGED <<createVars, localRepo, localAtCall, remoteUrlCorrect, thrown,
                 remoteError, coreVars, retryVars, provVars>>

\* Variant: any remote named origin counts as the right one.
GetRemotesAnyOrigin ==
  /\ remotePc = "getRemotes"
  /\ remoteUrlCorrect' = (localRepo.origin # <<>>)
  /\ gitLog' = Append(gitLog, "getRemotes")
  /\ remotePc' = IF localRepo.origin # <<>> THEN "fetch" ELSE "emptyDir"
  /\ UNCHANGED <<createVars, localRepo, localAtCall, isRepo, thrown, remoteError,
                 coreVars, retryVars, provVars>>

\* initRemoteRepo: getRemotes(true) and the test of the origin fetch URL
GetRemotes ==
  /\ remotePc = "getRemotes"
  /\ remoteUrlCorrect' = (localRepo.origin = gitConfig.remote_repository_url)
  /\ gitLog' = Append(gitLog, "getRemotes")
  /\ remotePc' = IF isRepo /\ localRepo.origin = gitConfig.remote_repository_url
                 THEN "fetch" ELSE "emptyDir"
  /\ UNCHANGED <<createVars, localRepo, localAtCall, isRepo, thrown, remoteError,
                 coreVars, retryVars, provVars>>

\* initRemoteRepo: this.git.fetch()
Fetch ==
  /\ remotePc = "fetch"
  /\ gitLog' = Append(gitLog, "fetch")
  /\ remotePc' = "return"
  /\ UNCHANGED <<createVars, localRepo, localAtCall, isRepo, remoteUrlCorrect, thrown,
                 remoteError, coreVars, retryVars, provVars>>

\* initRemoteRepo: fs.emptyDir(localPath)
EmptyDir ==
  /\ remotePc = "emptyDir"
  /\ localRepo' = LocalRepo(FALSE, <<>>, TRUE)
  /\ gitLog' = Append(gitLog, "emptyDir")
  /\ remotePc' = "clone"
  /\ UNCHANGED <<createVars, localAtCall, isRepo, remoteUrlCorrect, thrown, remoteError,
                 coreVars, retryVars, provVars>>

\* initRemoteRepo: simpleGit().clone(remoteUrl, localPath)
Clone ==
  /\ remotePc = "clone"
  /\ localRepo' = LocalRepo(TRUE, gitConfig.remote_repository_url, FALSE)
  /\ gitLog' = Append(gitLog, "clone")
  /\ remotePc' = "return"
  /\ UNCHANGED <<createVars, localAtCall, isRepo, remoteUrlCorrect, thrown, remoteError,
                 coreVars, retryVars, provVars>>

\* The operation initRemoteRepo is at rejects.
OperationRejects ==
  /\ remotePc \in {"checkIsRepo", "getRemotes", "fetch", "emptyDir", "clone"}
  /\ thrown' = remotePc
  /\ remotePc' = "catch"
  /\ UNCHANGED <<createVars, localRepo, localAtCall, isRepo, remoteUrlCorrect, gitLog,
                 remoteError, coreVars, retryVars, provVars>>

\* initRemoteRepo: the catch block logs the error and throws it again.
CatchRethrows ==
  /\ remotePc = "catch"
  /\ remoteError' = thrown
  /\ remotePc' = "threw"
  /\ UNCHANGED <<createVars, localRepo, localAtCall, isRepo, remoteUrlCorrect, gitLog,
                 thrown, coreVars, retryVars, provVars>>

\* initRemoteRepo: this.git = simpleGit(localPath), and the return
InitRemoteRepoReturns ==
  /\ remotePc = "return"
  /\ remotePc' = "returned"
  /\ UNCHANGED <<createVars, localRepo, localAtCall, isRepo, remoteUrlCorrect, gitLog,
                 thrown, remoteError, coreVars, retryVars, provVars>>

\* _initialize resumes after initRemoteRepo has returned.
InitializeResumes ==
  /\ createPc = "awaitRemote"
  /\ remotePc = "returned"
  /\ createPc' = "components"
  /\ UNCHANGED <<gitConfig, repoPath, initCalls, createError, components, remoteVars,
                 coreVars, retryVars, provVars>>

\* Variant: _initialize goes on to the components after a failure of
\* initRemoteRepo.
InitializeGoesOn ==
  /\ createPc = "awaitRemote"
  /\ remotePc = "threw"
  /\ createPc' = "components"
  /\ UNCHANGED <<gitConfig, repoPath, initCalls, createError, components, remoteVars,
                 coreVars, retryVars, provVars>>

\* _initialize: the catch around initRemoteRepo wraps the error and throws.
InitializeRejects ==
  /\ createPc = "awaitRemote"
  /\ remotePc = "threw"
  /\ createError' = ErrorOf("Failed to initialize remote repository: ", remoteError)
  /\ createPc' = "failed"
  /\ UNCHANGED <<gitConfig, repoPath, initCalls, components, remoteVars, coreVars,
                 retryVars, provVars>>

\* _initialize: new FeatureMapper(repoPath, config.config) and
\* new TestOrchestrator(config.config, repoPath); create returns the engine.
ConstructComponents ==
  /\ createPc = "components"
  /\ components' = << [component |-> "FeatureMapper", repoPath |-> repoPath],
                      [component |-> "TestOrchestrator", repoPath |-> repoPath] >>
  /\ createPc' = "done"
  /\ UNCHANGED <<gitConfig, repoPath, initCalls, createError, remoteVars, coreVars,
                 retryVars, provVars>>

CreateNext ==
  \/ TEOEngineConstructor
  \/ TEOEngineConstructorThrows
  \/ InitializeLocal
  \/ InitializeRemote
  \/ CheckIsRepo
  \/ GetRemotes
  \/ Fetch
  \/ EmptyDir
  \/ Clone
  \/ OperationRejects
  \/ CatchRethrows
  \/ InitRemoteRepoReturns
  \/ InitializeResumes
  \/ InitializeRejects
  \/ ConstructComponents

\* -------------------------------------------------------- specifications
\* FeatureMapper driven directly.
NoSelectArguments == allTestFiles = <<>> /\ impactedFeatures = <<>>

\* The components a specification does not run.
ServicesIdle == CreateIdle /\ RetryIdle /\ ProvidersIdle

Init ==
  /\ FeatureMapperInit /\ MapIdle /\ SelectIdle /\ NoSelectArguments /\ EngineIdle /\ GitIdle
  /\ ServicesIdle
Next == MapNext
Spec == Init /\ [][Next]_vars

\* FeatureMapper with strategies that may never complete; every step that
\* can run is eventually run by the event loop.
NextLive == MapNext \/ StrategyStalls
SpecLive == Init /\ [][NextLive]_vars /\ WF_vars(NextLive)

\* PlaywrightIntegration driven directly.
InitSelect ==
  /\ strategyConfigs = <<>>
  /\ strategies = <<>>
  /\ registry = Registry
  /\ allTestFiles \in TestLists
  /\ impactedFeatures \in FeatureLists
  /\ MapIdle /\ SelectIdle /\ EngineIdle /\ GitIdle
  /\ ServicesIdle
NextSelect == SelectTestsCall
SpecSelect == InitSelect /\ [][NextSelect]_vars

\* One run of TEOEngine.analyze.
InitEngine ==
  /\ FeatureMapperInit /\ MapIdle /\ SelectIdle /\ NoSelectArguments /\ EngineIdle /\ GitIdle
  /\ ServicesIdle
SpecEngine == InitEngine /\ [][EngineNext]_vars

\* One run of GitDiffAnalyzer.analyzeDiff.
InitDiff ==
  /\ strategyConfigs = <<>>
  /\ strategies = <<>>
  /\ registry = Registry
  /\ MapIdle /\ SelectIdle /\ NoSelectArguments /\ EngineIdle /\ GitIdle
  /\ ServicesIdle
SpecDiff == InitDiff /\ [][DiffNext]_vars

\* One run of TEOEngine.create.
InitCreate ==
  /\ strategyConfigs = <<>>
  /\ strategies = <<>>
  /\ registry = Registry
  /\ MapIdle /\ SelectIdle /\ NoSelectArguments /\ EngineIdle /\ GitIdle
  /\ RetryIdle /\ ProvidersIdle
  /\ createPc = "idle"
  /\ gitConfig \in GitConfigs
  /\ repoPath = <<>>
  /\ initCalls = 0
  /\ createError = NoError
  /\ components = <<>>
  /\ remotePc = "idle"
  /\ localRepo \in LocalRepos
  /\ localAtCall = localRepo
  /\ isRepo = FALSE
  /\ remoteUrlCorrect = FALSE
  /\ gitLog = <<>>
  /\ thrown = ""
  /\ remoteError = ""
SpecCreate == InitCreate /\ [][CreateNext]_vars

\* One run of BaseAIProvider.withRetry, after the constructor.
InitRetry ==
  /\ strategyConfigs = <<>>
  /\ strategies = <<>>
  /\ registry = Registry
  /\ MapIdle /\ SelectIdle /\ NoSelectArguments /\ EngineIdle /\ GitIdle
  /\ CreateIdle /\ ProvidersIdle
  /\ retryPc = "idle"
  /\ configMaxRetries \in MaxRetriesChoices
  /\ maxRetries = OrDefault(configMaxRetries, 30)
  /\ attempt = 0
  /\ attemptLog = <<>>
  /\ sleeps = <<>>
  /\ lastError = Undefined
  /\ retryOutcome = NoOutcome
SpecRetry == InitRetry /\ [][RetryNext]_vars

\* One run of AIProviderManager.analyzeImpact, after the constructor.
InitProviders ==
  /\ strategyConfigs = <<>>
  /\ strategies = <<>>
  /\ registry = Registry
  /\ MapIdle /\ SelectIdle /\ NoSelectArguments /\ EngineIdle /\ GitIdle
  /\ CreateIdle /\ RetryIdle
  /\ provPc = "idle"
  /\ aiConfig \in AIConfigs
  /\ primaryProvider = InitializeProviders(aiConfig).primaryProvider
  /\ fallbackProviders = InitializeProviders(aiConfig).fallbackProviders
  /\ provIdx = 0
  /\ featureArg = NullFeature
  /\ tried = <<>>
  /\ analysis = NoAnalysisYet
SpecProviders == InitProviders /\ [][ProvidersNext]_vars

\* ===================================================== claims on the mapper
MappingDone == mapPc = "done" /\ diffResult.hasChanges

\* C1: a strategy that throws is isolated: mapChangesToFeatures does not
\* fail, every configured strategy is run in order whatever the ones before
\* it did, and the result is the aggregation of exactly the results of the
\* strategies that returned; each failure is logged.
C1_StrategyIsolation ==
  /\ mapPc # "failed"
  /\ MappingDone =>
       /\ Len(outcomes) = Len(strategies)
       /\ \A i \in 1..Len(outcomes) :
            /\ outcomes[i].type = strategies[i].type
            /\ outcomes[i].threw => outcomes[i].features = <<>>
       /\ warnings = SelectSeq([i \in 1..Len(outcomes) |->
                                  IF outcomes[i].threw THEN outcomes[i].type ELSE "-"],
                               LAMBDA t : t # "-")
       /\ mapResult = SortByConfidence(MergeFeatures(<<>>, Returned))

\* A strategy threw, a later one returned results, and they are in the result.
C1_Witness ==
  /\ MappingDone
  /\ \E i, j \in 1..Len(outcomes) :
       i < j /\ outcomes[i].threw /\ ~outcomes[j].threw /\ outcomes[j].features # <<>>
  /\ mapResult # <<>>

\* C2: the confidence of each aggregated feature is the maximum of the
\* confidences of all returned results with that feature name, and there is
\* exactly one aggregated feature per returned feature name.
C2_ConfidenceIsMax ==
  MappingDone =>
    /\ { mapResult[k].featureName : k \in 1..Len(mapResult) }
         = { Returned[i].featureName : i \in 1..Len(Returned) }
    /\ \A k, l \in 1..Len(mapResult) :
         mapResult[k].featureName = mapResult[l].featureName => k = l
    /\ \A k \in 1..Len(mapResult) :
         LET c == Contributing(mapResult[k].featureName)
         IN /\ \E i \in c : Returned[i].confidence = mapResult[k].confidence
            /\ \A i \in c : Returned[i].confidence <= mapResult[k].confidence

\* A feature reported with different confidences by two strategies and twice
\* by one strategy, the first report not being the largest.
C2_Witness ==
  /\ MappingDone
  /\ \E k \in 1..Len(mapResult) :
       LET c == Contributing(mapResult[k].featureName)
       IN /\ \E i, j \in c : /\ i < j
                              /\ Returned[i].confidence < Returned[j].confidence
                              /\ Returned[i].strategyUsed # Returned[j].strategyUsed
          /\ \E i, j \in c : i < j /\ Returned[i].strategyUsed = Returned[j].strategyUsed

\* C3: impactedFiles of each aggregated feature is the set union of the
\* evidence files of the returned results with that name, testFiles the set
\* union of their test files, and neither list holds a path twice.
C3_FileSetsAreUnions ==
  MappingDone =>
    \A k \in 1..Len(mapResult) :
      LET c == Contributing(mapResult[k].featureName)
      IN /\ SeqToSet(mapResult[k].impactedFiles)
              = UNION { SeqToSet(Returned[i].impactedFiles) : i \in c }
         /\ SeqToSet(mapResult[k].testFiles)
              = UNION { SeqToSet(Returned[i].testFiles) : i \in c }
         /\ NoDup(mapResult[k].impactedFiles)
         /\ NoDup(mapResult[k].testFiles)

\* A feature merged from results with different evidence files whose test
\* files overlap, and from results with the same evidence file.
C3_Witness ==
  /\ MappingDone
  /\ \E k \in 1..Len(mapResult) :
       LET c == Contributing(mapResult[k].featureName)
       IN /\ Len(mapResult[k].impactedFiles) > 1
          /\ \E i, j \in c :
               /\ i # j
               /\ SeqToSet(Returned[i].testFiles) \cap SeqToSet(Returned[j].testFiles) # {}
               /\ Returned[i].testFiles # Returned[j].testFiles
  /\ \E k \in 1..Len(mapResult) :
       \E i, j \in Contributing(mapResult[k].featureName) :
         i # j /\ Returned[i].impactedFiles = Returned[j].impactedFiles

\* C4: the returned list is ordered by confidence descending, and features
\* of equal confidence are in the order in which their names were first seen.
C4_SortedStable ==
  MappingDone =>
    \A k, l \in 1..Len(mapResult) :
      k < l =>
        /\ mapResult[k].confidence >= mapResult[l].confidence
        /\ mapResult[k].confidence = mapResult[l].confidence
             => FirstSeen(mapResult[k].featureName) < FirstSeen(mapResult[l].featureName)

\* Three features, two of equal confidence, and the sort moved one of them.
C4_Witness ==
  /\ MappingDone
  /\ Len(mapResult) = 3
  /\ mapResult # allFeatures
  /\ \E k \in 1..2 : mapResult[k].confidence = mapResult[k + 1].confidence

\* C5: every aggregated feature has a confidence in [0,1].
C5_ConfidenceInUnitInterval ==
  MappingDone =>
    \A k \in 1..Len(mapResult) :
      mapResult[k].confidence >= 0 /\ mapResult[k].confidence <= 100

\* ================================================== claims on selectTests
SelectionDone == selPc = "done"

\* The features, by index, whose matched tests hold a path.
Claimants(path) ==
  { k \in 1..Len(impactedFeatures) : path \in SeqToSet(featureTests[k]) }

\* C6: every test path occurs at most once in selectedTests, every matched
\* path is selected, and each entry carries the name and confidence of the
\* first feature of the list whose matched tests hold its path, whatever the
\* confidences of later features.
C6_FirstFeatureWins ==
  SelectionDone =>
    LET sel == selection.selectedTests
    IN /\ \A i, j \in 1..Len(sel) : sel[i].path = sel[j].path => i = j
       /\ { sel[i].path : i \in 1..Len(sel) }
            = UNION { SeqToSet(featureTests[k]) : k \in 1..Len(featureTests) }
       /\ \A i \in 1..Len(sel) :
            \E k \in Claimants(sel[i].path) :
              /\ \A l \in Claimants(sel[i].path) : k <= l
              /\ sel[i].feature = impactedFeatures[k].featureName
              /\ sel[i].confidence = impactedFeatures[k].confidence

\* Two features of different names match one path and the later one has the
\* higher confidence.
C6_Witness ==
  /\ SelectionDone
  /\ \E i \in 1..Len(selection.selectedTests) :
       \E k, l \in Claimants(selection.selectedTests[i].path) :
         /\ k < l
         /\ impactedFeatures[k].featureName # impactedFeatures[l].featureName
         /\ impactedFeatures[k].confidence < impactedFeatures[l].confidence

\* The available tests that some test-file pattern of feature k matches.
HintHits(k) ==
  { t \in SeqToSet(allTestFiles) :
      \E p \in SeqToSet(impactedFeatures[k].testFiles) : MatchesPattern(t, p) }

\* The available tests whose lower-cased path contains the lower-cased name
\* of feature k, or that name without '-' and '_'.
NameHits(k) ==
  { t \in SeqToSet(allTestFiles) :
      \/ Includes(ToLowerCase(t), ToLowerCase(impactedFeatures[k].featureName))
      \/ Includes(ToLowerCase(t),
                  StripSeparators(ToLowerCase(impactedFeatures[k].featureName))) }

\* C7 as stated: a feature with test files is matched through them only,
\* the name fallback is for features without test files.
C7_HintsOnly ==
  SelectionDone =>
    \A k \in 1..Len(impactedFeatures) :
      SeqToSet(featureTests[k]) =
        IF Len(impactedFeatures[k].testFiles) > 0 THEN HintHits(k) ELSE NameHits(k)

\* C7 amended: a feature is matched through its test files when at least one
\* of them matches an available test; the name fallback is applied to every
\* feature whose test files match no available test, which includes the
\* features without test files.
C7_FallbackWhenNoHintMatches ==
  SelectionDone =>
    \A k \in 1..Len(impactedFeatures) :
      SeqToSet(featureTests[k]) =
        IF HintHits(k) # {} THEN HintHits(k) ELSE NameHits(k)

\* A feature with test files of which none matches is matched by its name,
\* and a feature with a matching test file is not.
C7_Witness ==
  /\ SelectionDone
  /\ \E k \in 1..Len(impactedFeatures) :
       /\ Len(impactedFeatures[k].testFiles) > 0
       /\ HintHits(k) = {}
       /\ featureTests[k] # <<>>
  /\ \E k \in 1..Len(impactedFeatures) :
       /\ HintHits(k) # {}
       /\ NameHits(k) \ HintHits(k) # {}

\* C8: every selected path is one of the available tests.
C8_SelectedAreAvailable ==
  SelectionDone =>
    \A i \in 1..Len(selection.selectedTests) :
      selection.selectedTests[i].path \in SeqToSet(allTestFiles)

\* A feature whose test files name a path that is not available has tests
\* selected.
C8_Witness ==
  /\ SelectionDone
  /\ \E k \in 1..Len(impactedFeatures) :
       /\ SeqToSet(impactedFeatures[k].testFiles) \ SeqToSet(allTestFiles) # {}
       /\ \E i \in 1..Len(selection.selectedTests) :
            /\ selection.selectedTests[i].path \in SeqToSet(featureTests[k])
            /\ selection.selectedTests[i].feature = impactedFeatures[k].featureName

\* C9: totalAvailable is the number of available tests, totalSelected the
\* number of selected entries, and reductionPercentage the integer nearest to
\* (1 - totalSelected / totalAvailable) * 100, halves rounded up; with no
\* available test the quotient is 0 / 0 and the percentage is NaN.
C9_SummaryDerived ==
  SelectionDone =>
    LET a == Len(allTestFiles)
        n == Len(selection.selectedTests)
        r == selection.summary.reductionPercentage
    IN /\ selection.summary.totalAvailable = a
       /\ selection.summary.totalSelected = n
       /\ r.nan <=> a = 0
       /\ a > 0 => /\ (2 * r.value - 1) * a <= 200 * (a - n)
                   /\ 200 * (a - n) < (2 * r.value + 1) * a

\* A selection whose percentage is not a whole number before rounding.
C9_Witness ==
  /\ SelectionDone
  /\ Len(allTestFiles) = 3
  /\ Len(selection.selectedTests) = 1
  /\ selection.summary.reductionPercentage.value = 67

\* ====================================================== claims on analyze
\* analyzeDiff returned a ChangeSet without change records.
EmptyChangeSet == diffAnalysis.hasChanges /\ diffAnalysis.changes = <<>>

\* C10: after an empty ChangeSet, analyze does not fail and can always go
\* on until it returns, it returns no impacted feature and no selected test,
\* and neither the AI step nor the test discovery is invoked.
C10_EmptyChangeSet ==
  EmptyChangeSet =>
    /\ enginePc # "failed"
    /\ aiCalls = 0
    /\ discoverCalls = 0
    /\ enginePc # "done" => ENABLED EngineNext
    /\ enginePc = "done" =>
         /\ featureMapping = <<>>
         /\ testSelection.selectedTests = <<>>
         /\ engineResult.featuresDetected = 0
         /\ engineResult.testsSelected = 0

\* A run with AI enabled and strategies configured returns after an empty
\* ChangeSet.
C10_Witness ==
  /\ EmptyChangeSet
  /\ enginePc = "done"
  /\ options.useAI
  /\ Len(strategies) > 1
  /\ \E i \in 1..Len(outcomes) : ~outcomes[i].threw

\* ================================================= claims on analyzeDiff
\* C11: when analyzeDiff fails, analyze fails with that error and no later
\* stage runs: feature mapping, AI enhancement and test selection are never
\* invoked and no result is returned.
C11_DiffFailureIsFatal ==
  diffOutcome = "threw" =>
    /\ enginePc = "failed"
    /\ engineError = "diff"
    /\ mapPc = "idle" /\ outcomes = <<>> /\ featureMapping = <<>>
    /\ aiCalls = 0 /\ aiAnalysis = NoAnalysis
    /\ discoverCalls = 0 /\ selPc = "idle"
    /\ testSelection = NoSelection
    /\ engineResult = NoResult

\* analyzeDiff threw in a run that asked for the AI step, with strategies
\* configured, and analyze has failed.
C11_Witness ==
  /\ diffOutcome = "threw"
  /\ enginePc = "failed"
  /\ options.useAI
  /\ strategies # <<>>

\* C12: analyzeDiff fails, without requesting a diff summary and without a
\* ChangeSet, whenever the repository check reports that the location is not
\* a valid repository and whenever one of the two references does not resolve.
C12_InvalidRepositoryFails ==
  (repoCheck \in {"false", "rejected"} \/ refs.base = "fail" \/ refs.head = "fail") =>
    /\ summaryCalls = 0
    /\ diffPc \notin {"files", "done"}
    /\ changes = <<>>

\* The entry of the diff summary a change record was made from.
SummaryOf(change) ==
  CHOOSE s \in SeqToSet(diffSummary) : PathResolve(s.file) = change.filePath

\* C13: a file is classified 'modified' if it is binary; otherwise 'added' if
\* insertions > 0 and deletions = 0; otherwise 'deleted' if insertions = 0 and
\* deletions > 0; otherwise 'modified'; never 'renamed'.
C13_ChangeTypeClassification ==
  \A j \in 1..Len(changes) :
    LET s == SummaryOf(changes[j])
        t == changes[j].changeType
    IN /\ t # RENAMED
       /\ s.binary => t = "modified"
       /\ (~s.binary /\ s.insertions > 0 /\ s.deletions = 0) => t = "added"
       /\ (~s.binary /\ s.insertions = 0 /\ s.deletions > 0) => t = "deleted"
       /\ (~s.binary /\ ~(s.insertions > 0 /\ s.deletions = 0)
                     /\ ~(s.insertions = 0 /\ s.deletions > 0)) => t = "modified"

\* A binary file with insertions only and a text file without insertions and
\* deletions have been classified.
C13_Witness ==
  /\ diffPc = "done"
  /\ \E j \in 1..Len(changes) :
       LET s == SummaryOf(changes[j])
       IN s.binary /\ s.insertions > 0 /\ s.deletions = 0
  /\ \E j \in 1..Len(changes) :
       LET s == SummaryOf(changes[j])
       IN ~s.binary /\ s.insertions = 0 /\ s.deletions = 0

IsList(x) == DOMAIN x = 1..Len(x)

\* The change records made for the i-th file of the diff summary.
RecordsOf(i) ==
  { j \in 1..Len(changes) : changes[j].filePath = PathResolve(diffSummary[i].file) }

\* C14: whatever read or parse failures the files meet, analyzeDiff does not
\* fail in its file loop, and its result holds exactly one change record per
\* file of the summary, with the insertions and deletions of the file as
\* linesAdded and linesRemoved and lists as symbol sets.
C14_OneRecordPerFile ==
  /\ diffPc = "failed" => fileIdx = 0
  /\ diffPc = "files" => Len(changes) = fileIdx - 1
  /\ diffPc = "done" =>
       /\ Len(changes) = Len(diffSummary)
       /\ \A i \in 1..Len(diffSummary) :
            /\ Cardinality(RecordsOf(i)) = 1
            /\ \A j \in RecordsOf(i) :
                 /\ changes[j].linesAdded = diffSummary[i].insertions
                 /\ changes[j].linesRemoved = diffSummary[i].deletions
                 /\ IsList(changes[j].functionsChanged)
                 /\ IsList(changes[j].classesChanged)
                 /\ IsList(changes[j].importsChanged)

\* The parser threw on one parsed file and the head content of another
\* could not be read, and the run has returned.
C14_Witness ==
  /\ diffPc = "done"
  /\ \E i, k \in 1..Len(diffSummary) :
       /\ i # k
       /\ faults[i].parse = "throws" /\ faults[k].newRead = "fails"
       /\ \A m \in {i, k} :
            /\ ~diffSummary[m].binary
            /\ ~(diffSummary[m].insertions = 0 /\ diffSummary[m].deletions > 0)
            /\ DetectLanguage(PathResolve(diffSummary[m].file)) \in PARSERS

\* C15: for a non-deleted, non-binary file in a language with a parser whose
\* head content parses, functionsChanged holds the identifier-child name of
\* every function-like node of the tree, classesChanged that of every
\* class-like node, importsChanged the text of every import-like node.
C15_SymbolsExtracted ==
  diffPc = "done" =>
    \A i \in 1..Len(diffSummary) : \A j \in RecordsOf(i) :
      LET file == diffSummary[i].file
          language == DetectLanguage(PathResolve(file))
      IN ( /\ ~diffSummary[i].binary
           /\ changes[j].changeType # "deleted"
           /\ language \in PARSERS
           /\ file \in DOMAIN HeadTree
           /\ faults[i].newRead = "ok" /\ ~faults[i].newEmpty /\ faults[i].parse = "ok" )
         => \A n \in SeqToSet(WalkTree(HeadTree[file])) :
              /\ (IsFunctionNode(n, language) /\ ExtractNodeName(n) # <<>>)
                   => ExtractNodeName(n) \in SeqToSet(changes[j].functionsChanged)
              /\ (IsClassNode(n, language) /\ ExtractNodeName(n) # <<>>)
                   => ExtractNodeName(n) \in SeqToSet(changes[j].classesChanged)
              /\ IsImportNode(n, language)
                   => n.text \in SeqToSet(changes[j].importsChanged)

\* ============================================ claims on the aggregation
\* C16 as stated: nothing is merged into the aggregation state before every
\* configured strategy has finished.
C16_NoMergeBeforeAllFinish ==
  (mapPc = "loop" /\ allFeatures # <<>>) => idx > Len(strategies)

\* C16 as amended: the strategies run one after another; the results of each
\* are merged as soon as it returns, before the next strategy is started, so
\* the aggregation state is at every point the merge of what was returned so
\* far; the sort and the return wait for the last strategy.
C16_MergedAsReturned ==
  /\ mapPc = "loop" =>
       /\ Len(outcomes) = idx - 1
       /\ allFeatures = MergeFeatures(<<>>, Returned)
       /\ mapResult = <<>>
  /\ MappingDone => Len(outcomes) = Len(strategies)

\* The results of a first strategy are in the aggregation state while a
\* second strategy has not run yet.
C16_Witness ==
  /\ mapPc = "loop"
  /\ idx = 2
  /\ Len(strategies) >= 2
  /\ allFeatures # <<>>

\* C17: a run of mapChangesToFeatures in which a strategy never completes
\* still returns eventually.
C17_StalledStrategyReturns == (mapPc = "awaiting") ~> (mapPc = "done")

\* The weight configured for the strategy of a type: Map.set keeps the last
\* enabled entry of the type.
ConfiguredWeight(t) ==
  LET ix == { i \in 1..Len(strategyConfigs) :
                strategyConfigs[i].type = t /\ strategyConfigs[i].enabled }
  IN strategyConfigs[CHOOSE i \in ix : \A j \in ix : j <= i].weight

\* The factor of a result: the static confidence configured for its feature
\* (file-based), 0.8, 0.9 or 0.7, in tenths.
Factor(r) ==
  CASE r.strategyUsed = FILE_BASED -> Registry[r.featureName].confidence
    [] r.strategyUsed = FOLDER_BASED -> 8
    [] r.strategyUsed = ANNOTATION_BASED -> 9
    [] OTHER -> 7

\* C18: every result a strategy emits has confidence weight * factor, for
\* every configured weight and static confidence in [0,1], 0 included.
C18_ExactConfidence ==
  \A i \in 1..Len(outcomes) : \A k \in 1..Len(outcomes[i].features) :
    LET r == outcomes[i].features[k]
        w == ConfiguredWeight(outcomes[i].type)
    IN (w \in 0..10 /\ Factor(r) \in 0..10) => r.confidence = w * Factor(r)

\* C19: the merge-and-sort run a second time over the same result objects
\* yields the same feature names in the same order with the same
\* confidences and the same file and test-file sets.
C19_AggregationIdempotent ==
  mapPc = "again" =>
    /\ Len(secondResult) = Len(mapResult)
    /\ \A k \in 1..Len(mapResult) :
         /\ secondResult[k].featureName = mapResult[k].featureName
         /\ secondResult[k].confidence = mapResult[k].confidence
         /\ SeqToSet(secondResult[k].impactedFiles) = SeqToSet(mapResult[k].impactedFiles)
         /\ SeqToSet(secondResult[k].testFiles) = SeqToSet(mapResult[k].testFiles)

\* The second run went over a feature merged from results of different
\* confidences, files and test files, among several features.
C19_Witness ==
  /\ mapPc = "again"
  /\ Len(secondResult) >= 2
  /\ \E n \in FeatureNames : \E i, j \in Contributing(n) :
       /\ i < j
       /\ Returned[i].confidence < Returned[j].confidence
       /\ Returned[i].impactedFiles # Returned[j].impactedFiles
       /\ Returned[i].testFiles # Returned[j].testFiles

\* C20: each aggregated feature records the set of all strategies that
\* contributed a result for its name.
C20_AllContributingStrategies ==
  MappingDone =>
    \A k \in 1..Len(mapResult) :
      {mapResult[k].strategyUsed}
        = { Returned[i].strategyUsed : i \in Contributing(mapResult[k].featureName) }

\* ============================================ claims on merge and configuration
\* Index of the first entry of the configuration list that is instantiated
\* for a strategy type.
FirstEntry(t) ==
  LET ix == { i \in 1..Len(strategyConfigs) :
                strategyConfigs[i].type = t /\ strategyConfigs[i].enabled }
  IN CHOOSE i \in ix : \A j \in ix : i <= j

\* { ...o1, ...o2, ..., ...on } for a list of objects.
RECURSIVE SpreadAll(_)
SpreadAll(objs) ==
  IF objs = <<>> THEN EmptyObject
  ELSE Spread(SpreadAll(SubSeq(objs, 1, Len(objs) - 1)), objs[Len(objs)])

\* The metadata of the results returned for a feature name, in the order
\* the results were processed.
MetadataOf(n) ==
  LET rs == SelectSeq(Returned, LAMBDA r : r.featureName = n)
  IN [i \in 1..Len(rs) |-> rs[i].metadata]

\* C21: the strategies are processed one after another in the order of the
\* configuration list, and the metadata of an aggregated feature is the
\* shallow merge of the metadata of its contributing results in processing
\* order: on a shared key the value of the result processed last wins, a
\* key of only one result is kept.
C21_MetadataMergedInOrder ==
  /\ \A i \in 1..Len(outcomes) : outcomes[i].type = strategies[i].type
  /\ \A i, j \in 1..Len(strategies) :
       i < j => FirstEntry(strategies[i].type) < FirstEntry(strategies[j].type)
  /\ MappingDone =>
       \A k \in 1..Len(mapResult) :
         mapResult[k].metadata = SpreadAll(MetadataOf(mapResult[k].featureName))

\* A feature merged from two results of different strategies that share a
\* metadata key with different values, one of them with a key of its own.
C21_Witness ==
  /\ MappingDone
  /\ \E n \in FeatureNames : \E i, j \in Contributing(n) :
       /\ i < j
       /\ Returned[i].strategyUsed # Returned[j].strategyUsed
       /\ \E key \in DOMAIN Returned[i].metadata \cap DOMAIN Returned[j].metadata :
            Returned[i].metadata[key] # Returned[j].metadata[key]
       /\ DOMAIN Returned[i].metadata # DOMAIN Returned[j].metadata

C25_RunsUnlessDisabled ==
  /\ \A t \in MappingStrategy :
       (\E i \in 1..Len(strategies) : strategies[i].type = t)
         <=> (\E i \in 1..Len(strategyConfigs) :
                /\ strategyConfigs[i].type = t
                /\ ~(strategyConfigs[i].hasEnabled /\ ~strategyConfigs[i].enabled))
  /\ \A i \in 1..Len(outcomes) :
       \E k \in 1..Len(strategies) : strategies[k].type = outcomes[i].type

\* ================================================ claims on the selection counts
\* The sum of the testsSelected counts of a list of selection reasons.
RECURSIVE SumTestsSelected(_)
SumTestsSelected(reasons) ==
  IF reasons = <<>> THEN 0
  ELSE Head(reasons).testsSelected + SumTestsSelected(Tail(reasons))

\* C27: the testsSelected count of every selection reason is the number of
\* selectedTests entries attributed to the feature of the reason, and the
\* counts add up to summary.totalSelected, also when several features match
\* the same path.
C27_CountsAreAttributions ==
  SelectionDone =>
    LET sel == selection.selectedTests
        reasons == selection.selectionReasons
    IN /\ \A i \in 1..Len(reasons) :
            (\A j \in 1..Len(reasons) : reasons[j].feature = reasons[i].feature => j = i)
              => reasons[i].testsSelected
                   = Cardinality({ k \in 1..Len(sel) : sel[k].feature = reasons[i].feature })
       /\ SumTestsSelected(reasons) = selection.summary.totalSelected

\* C28: for every input of selectTests, the empty list of available tests
\* included, totalSelected is at most totalAvailable and
\* reductionPercentage is a defined whole number from 0 to 100.
C28_PercentageDefined ==
  SelectionDone =>
    /\ selection.summary.totalSelected <= selection.summary.totalAvailable
    /\ ~selection.summary.reductionPercentage.nan
    /\ selection.summary.reductionPercentage.value \in 0..100

\* =================================================== claims on create
RemoteUrl == gitConfig.remote_repository_url
CreateFinished == createPc \in {"done", "failed"}

\* FeatureMapper and TestOrchestrator are constructed only after a
\* successful initRemoteRepo when a remote is configured, both with the
\* analyzer's repoPath, and a failure of initRemoteRepo makes create
\* reject with the wrapped error and without the two components.
ComponentsAfterRemote ==
  /\ initCalls <= 1
  /\ components # <<>> =>
       /\ RemoteUrl # <<>> => remotePc = "returned"
       /\ components = << [component |-> "FeatureMapper",
                           repoPath |-> AnalyzerRepoPath(gitConfig)],
                          [component |-> "TestOrchestrator",
                           repoPath |-> AnalyzerRepoPath(gitConfig)] >>
  /\ (remotePc = "threw" /\ CreateFinished) =>
       /\ createPc = "failed"
       /\ createError = ErrorOf("Failed to initialize remote repository: ", remoteError)
       /\ components = <<>>
  /\ createPc = "done" => Len(components) = 2

\* C23: create calls initRemoteRepo exactly when a remote_repository_url is
\* configured, constructs FeatureMapper and TestOrchestrator only after
\* that call has completed successfully, both with the analyzer's
\* repoPath, and when initRemoteRepo fails rejects with 'Failed to
\* initialize remote repository: <cause>' without constructing either.
C23_CreateInitializesRemote ==
  /\ CreateFinished => (initCalls = 1 <=> RemoteUrl # <<>>)
  /\ ComponentsAfterRemote

\* C23 as amended: initRemoteRepo is called exactly when a remote is
\* configured and the constructor of the analyzer has completed; when the
\* constructor cannot create the local directory create rejects with its
\* error and initRemoteRepo is not called.  The rest is as in C23.
C23_CreateInitializesRemoteOnceConstructed ==
  /\ CreateFinished => (initCalls = 1 <=> (RemoteUrl # <<>> /\ repoPath # <<>>))
  /\ (CreateFinished /\ repoPath = <<>>) =>
       /\ createPc = "failed"
       /\ createError.text = "Failed to create directory for remote repository: "
       /\ components = <<>>
  /\ ComponentsAfterRemote

\* create returned an engine for a remote repository that had to be cloned.
C23_Witness ==
  /\ createPc = "done"
  /\ RemoteUrl # <<>>
  /\ initCalls = 1
  /\ remotePc = "returned"
  /\ "clone" \in SeqToSet(gitLog)
  /\ Len(components) = 2

\* The local path held, when initRemoteRepo was called, a repository whose
\* origin fetch URL is the configured remote URL.
OriginMatches ==
  localAtCall.isRepo /\ localAtCall.origin = RemoteUrl

\* C24: initRemoteRepo only fetches, without emptying the directory or
\* cloning, when the local path is a repository whose origin fetch URL is
\* the remote URL; otherwise it empties the directory and then clones; an
\* error of any operation is thrown to the caller.
C24_FetchOrCleanClone ==
  remotePc # "idle" =>
    LET ops == SeqToSet(gitLog)
        n == Len(gitLog)
    IN /\ OriginMatches =>
            /\ "emptyDir" \notin ops /\ "clone" \notin ops
            /\ remotePc = "returned" => gitLog[n] = "fetch"
       /\ ~OriginMatches =>
            /\ "fetch" \notin ops
            /\ remotePc = "returned" =>
                 (n >= 2 /\ gitLog[n - 1] = "emptyDir" /\ gitLog[n] = "clone")
       /\ \A i \in 1..n : gitLog[i] = "clone" => (i > 1 /\ gitLog[i - 1] = "emptyDir")
       /\ thrown # "" => remotePc \in {"catch", "threw"}
       /\ remotePc = "threw" => remoteError = thrown

\* initRemoteRepo returned after a fetch into a repository of the right
\* origin.
C24_Witness ==
  /\ remotePc = "returned"
  /\ OriginMatches
  /\ gitLog = <<"checkIsRepo", "getRemotes", "fetch">>
  /\ localRepo = localAtCall

\* ================================================= claims on the AI providers
\* C29: for every configured max_retries, 0 included, withRetry invokes
\* the operation at least once and at most maxRetries times, returns the
\* result of the first invocation that succeeds, makes no invocation after
\* an error that is not retryable, sleeps min(1000 * 2^(attempt-1), 10000)
\* ms after each failed attempt that is followed by another and at no other
\* point, and when no invocation succeeds throws the error of the last one.
C29_RetryContract ==
  retryPc \in {"returned", "threw"} =>
    LET n == Len(attemptLog)
    IN /\ n >= 1
       /\ n * 10 <= maxRetries
       /\ \A i \in 1..n : attemptLog[i].attempt = i
       /\ \A i \in 1..(n - 1) :
            ~attemptLog[i].ok /\ ~ShouldNotRetry(attemptLog[i].error.message)
       /\ sleeps = [i \in 1..(n - 1) |-> [after |-> i, delay |-> BackoffDelay(i)]]
       /\ retryPc = "returned" =>
            attemptLog[n].ok /\ retryOutcome.attempt = n
       /\ retryPc = "threw" =>
            /\ ~attemptLog[n].ok
            /\ ~retryOutcome.typeError
            /\ retryOutcome.error = attemptLog[n].error

\* The providers of the manager in the order analyzeImpact is to try them.
ProviderOrder ==
  (IF Registers(aiConfig.primary) THEN <<"primary">> ELSE <<>>)
    \o (IF Registers(aiConfig.fallback) THEN <<"fallback">> ELSE <<>>)
    \o (IF Registers(aiConfig.local) THEN <<"local">> ELSE <<>>)

\* C30: analyzeImpact tries the primary provider and then the fallback
\* providers in the order they were registered (fallback, then local),
\* stops at the first that succeeds and resolves to its analysis, never
\* rejects, and when every provider fails or none is configured resolves
\* to the fallback analysis: impactLevel 'medium', confidence 0.3,
\* metadata.fallback true.
C30_FallbackChain ==
  /\ provPc # "rejected"
  /\ \A i \in 1..Len(tried) :
       /\ i <= Len(ProviderOrder)
       /\ tried[i].provider = ProviderOrder[i]
       /\ i < Len(tried) => ~tried[i].ok
  /\ provPc = "resolved" =>
       IF tried # <<>> /\ tried[Len(tried)].ok
       THEN analysis = tried[Len(tried)].analysis
       ELSE /\ Len(tried) = Len(ProviderOrder)
            /\ analysis.impactLevel = "medium"
            /\ analysis.confidence = 30
            /\ analysis.fallback

\* Primary, fallback and local provider were tried in this order and all
\* failed.
C30_Witness ==
  /\ provPc = "resolved"
  /\ Len(tried) = 3
  /\ \A i \in 1..3 : ~tried[i].ok
  /\ analysis.fallback

\* ===================================================== claims on the AI step
\* The test selection analyze returns for a feature mapping, a framework
\* and the test files discoverTests found.
SelectionFor(features, framework, tests) ==
  IF Len(features) > 0
  THEN LET r == SelectTests(tests, features)
       IN [framework |-> framework, selectedTests |-> r.selectedTests,
           selectionReasons |-> r.selectionReasons, summary |-> r.summary]
  ELSE [NoSelection EXCEPT !.framework = framework]

\* C26: the AI step is advisory: whether the AI returns, throws or is not
\* used, analyze goes on to the selection, and the featureMapping and the
\* testSelection of the result are those determined by the mapping result,
\* the framework and the discovered tests alone, so two runs that differ
\* only in what the AI does return the same of both.
C26_AIAdvisory ==
  /\ engineError \in {"", "refs", "no_commit", "diff", "select"}
  /\ enginePc \in {"select", "done"} => featureMapping = mapResult
  /\ enginePc = "done" =>
       testSelection = SelectionFor(mapResult, options.framework, allTestFiles)

\* analyze returned a selection after an AI step that raised the confidence
\* of a feature.
C26_Witness ==
  /\ enginePc = "done"
  /\ aiCalls = 1
  /\ aiAnalysis.present
  /\ \E i \in 1..Len(aiAnalysis.enhancedFeatures) :
       aiAnalysis.enhancedFeatures[i].enhancedConfidence
         # aiAnalysis.enhancedFeatures[i].confidence
  /\ Len(testSelection.selectedTests) > 0

====
